---- MODULE Spec2Model ----
(***************************************************************************)
(* Kelp M&A automation: the citation verifier (agents/citation_verifier.py)*)
(* and the pipeline that drives it (main.py: process, _filter_verified,    *)
(* process_batch), as a state machine.                                     *)
(*                                                                         *)
(* Texts are TLA+ strings; Python's str operations (in, lower, strip,      *)
(* split, re.sub, re.search) are operators over them, computed character   *)
(* by character.  Monetary values are integers in hundredths (210.00 is    *)
(* 21000); scores are compared as exact fractions.                         *)
(***************************************************************************)
EXTENDS Integers, Sequences, FiniteSets, TLC

(***************************************************************************)
(* Python str primitives                                                   *)
(***************************************************************************)

\* s[i-1] of Python, as a one-character string ("" outside the string)
Char(s, i) == IF i >= 1 /\ i <= Len(s) THEN SubSeq(s, i, i) ELSE ""

\* s[i-1:] of Python
From(s, i) == SubSeq(s, i, Len(s))

\* `needle in hay` of Python: every string contains the empty string
Contains(hay, needle) ==
    \E i \in 0..(Len(hay) - Len(needle)) : SubSeq(hay, i + 1, i + Len(needle)) = needle

\* needle occurs in s starting at position i (1-based)
StartsAt(s, i, needle) ==
    /\ i >= 1
    /\ i + Len(needle) - 1 <= Len(s)
    /\ SubSeq(s, i, i + Len(needle) - 1) = needle

UpperAlpha == "ABCDEFGHIJKLMNOPQRSTUVWXYZ"
LowerAlpha == "abcdefghijklmnopqrstuvwxyz"
Digits == "0123456789"

IsSpace(c) == c \in {" ", "\t", "\n", "\r", "\f"}
IsDigit(c) == Len(c) = 1 /\ Contains(Digits, c)

\* the lower-case letter of every upper-case letter
LowerMap ==
    [c \in {Char(UpperAlpha, i) : i \in 1..26} |->
        Char(LowerAlpha, CHOOSE i \in 1..26 : Char(UpperAlpha, i) = c)]

LowerChar(c) == IF c \in DOMAIN LowerMap THEN LowerMap[c] ELSE c

\* str.lower()
RECURSIVE Lower(_)
Lower(s) ==
    IF s = "" THEN ""
    ELSE IF Len(s) = 1 THEN LowerChar(s)
    ELSE Lower(SubSeq(s, 1, Len(s) \div 2)) \o Lower(SubSeq(s, Len(s) \div 2 + 1, Len(s)))

\* str.upper()
UpperMap ==
    [c \in {Char(LowerAlpha, i) : i \in 1..26} |->
        Char(UpperAlpha, CHOOSE i \in 1..26 : Char(LowerAlpha, i) = c)]

UpperChar(c) == IF c \in DOMAIN UpperMap THEN UpperMap[c] ELSE c

RECURSIVE Upper(_)
Upper(s) ==
    IF s = "" THEN ""
    ELSE IF Len(s) = 1 THEN UpperChar(s)
    ELSE Upper(SubSeq(s, 1, Len(s) \div 2)) \o Upper(SubSeq(s, Len(s) \div 2 + 1, Len(s)))

RECURSIVE LStrip(_)
LStrip(s) == IF s # "" /\ IsSpace(Head(s)) THEN LStrip(Tail(s)) ELSE s

RECURSIVE RStrip(_)
RStrip(s) ==
    IF s # "" /\ IsSpace(Char(s, Len(s))) THEN RStrip(SubSeq(s, 1, Len(s) - 1)) ELSE s

\* str.strip()
Strip(s) == RStrip(LStrip(s))

\* the first word of s (s starts with a non-space character)
RECURSIVE WordLen(_)
WordLen(s) == IF s = "" \/ IsSpace(Head(s)) THEN 0 ELSE 1 + WordLen(Tail(s))

\* str.split(): the maximal runs of non-whitespace, in order
RECURSIVE Split(_)
Split(s) ==
    LET t == LStrip(s)
        n == WordLen(t)
    IN IF t = "" THEN << >> ELSE <<SubSeq(t, 1, n)>> \o Split(From(t, n + 1))

\* str.split(sep) for a one-character separator: always at least one piece
RECURSIVE SplitOn(_, _)
SplitOn(s, sep) ==
    IF ~Contains(s, sep) THEN <<s>>
    ELSE LET i == CHOOSE i \in 1..Len(s) :
                    /\ Char(s, i) = sep
                    /\ \A j \in 1..(i - 1) : Char(s, j) # sep
         IN <<SubSeq(s, 1, i - 1)>> \o SplitOn(From(s, i + 1), sep)

\* list[:n]
Take(seq, n) == SubSeq(seq, 1, IF Len(seq) < n THEN Len(seq) ELSE n)

\* set(list)
Range(seq) == {seq[i] : i \in 1..Len(seq)}

\* ', '.join(list)
RECURSIVE Join(_, _)
Join(seq, sep) ==
    IF Len(seq) = 0 THEN ""
    ELSE IF Len(seq) = 1 THEN seq[1]
    ELSE seq[1] \o sep \o Join(Tail(seq), sep)

(***************************************************************************)
(* Numbers and their formatting                                            *)
(***************************************************************************)

Abs(x) == IF x < 0 THEN -x ELSE x

RECURSIVE NatToStr(_)
NatToStr(n) ==
    IF n < 10 THEN Char(Digits, n + 1)
    ELSE NatToStr(n \div 10) \o Char(Digits, (n % 10) + 1)

\* str(int)
IntToStr(n) == IF n < 0 THEN "-" \o NatToStr(-n) ELSE NatToStr(n)

\* f"{v:.2f}" of a value held in hundredths
Fmt2(c) ==
    LET a == Abs(c)
    IN (IF c < 0 THEN "-" ELSE "") \o NatToStr(a \div 100) \o "."
         \o NatToStr((a % 100) \div 10) \o NatToStr(a % 10)

\* f"{v:.1f}" of a value held in tenths
Fmt1(t) ==
    LET a == Abs(t)
    IN (IF t < 0 THEN "-" ELSE "") \o NatToStr(a \div 10) \o "." \o NatToStr(a % 10)

\* num/den (den > 0) rounded to the nearest integer, exact halves to the even
\* neighbour, as the float formatting of an exactly representable value does
RoundDiv(num, den) ==
    LET q == num \div den
        r == num - q * den
    IN IF 2 * r < den THEN q
       ELSE IF 2 * r > den THEN q + 1
       ELSE IF q % 2 = 0 THEN q ELSE q + 1

RECURSIVE Gcd(_, _)
Gcd(a, b) == IF b = 0 THEN a ELSE Gcd(b, a % b)

RECURSIVE Pow(_, _)
Pow(b, n) == IF n = 0 THEN 1 ELSE b * Pow(b, n - 1)

(***************************************************************************)
(* citation_verifier.py: Citation and the claim classifiers                *)
(***************************************************************************)

\* Citation(slide_num, claim, verified, source_type, source_reference,
\* line_number, line_content); line_number 0 and line_content "" stand for
\* None.  original_value is evidence only and is not kept.
Citation(slide_num, claim, verified, source_type, source_reference, line_number, line_content) ==
    [slide_num |-> slide_num, claim |-> claim, verified |-> verified,
     source_type |-> source_type, source_reference |-> source_reference,
     line_number |-> line_number, line_content |-> line_content]

\* re.search(r'\d+(\.\d+)?%.*CAGR', claim, re.I): a digit right before a '%',
\* then CAGR later on the same line
PercentThenCagr(claim) ==
    \E i \in 1..Len(claim) :
        /\ IsDigit(Char(claim, i))
        /\ Char(claim, i + 1) = "%"
        /\ \E j \in (i + 2)..Len(claim) :
              /\ StartsAt(Lower(claim), j, "cagr")
              /\ ~Contains(SubSeq(claim, i + 2, j - 1), "\n")

_is_calculated_claim(claim) ==
    \/ Contains(Lower(claim), "cagr")
    \/ Contains(Lower(claim), "margin")
    \/ PercentThenCagr(claim)
    \/ Contains(Lower(claim), "revenue cagr")
    \/ Contains(Lower(claim), "ebitda margin")

\* re.search(r'\$\d+.*billion', claim, re.I)
DollarThenBillion(claim) ==
    \E i \in 1..Len(claim) :
        /\ Char(claim, i) = "$"
        /\ IsDigit(Char(claim, i + 1))
        /\ \E j \in (i + 2)..Len(claim) :
              /\ StartsAt(Lower(claim), j, "billion")
              /\ ~Contains(SubSeq(claim, i + 2, j - 1), "\n")

_is_web_claim(claim) ==
    \/ Contains(Lower(claim), "industry size")
    \/ Contains(Lower(claim), "industry growth")
    \/ Contains(Lower(claim), "market size")
    \/ DollarThenBillion(claim)
    \/ Contains(Lower(claim), "positioned for")

\* the characters the first re.sub of _clean_for_matching removes: * _ # - |
\* and the backquote, which no TLA+ string can hold and no text here contains
IsMarkdownChar(c) == c \in {"*", "_", "#", "-", "|"}

RECURSIVE RemoveMarkdown(_)
RemoveMarkdown(s) ==
    IF s = "" THEN ""
    ELSE IF IsMarkdownChar(Head(s)) THEN RemoveMarkdown(Tail(s))
    ELSE Head(s) \o RemoveMarkdown(Tail(s))

\* re.sub(r'\s+', ' ', text)
RECURSIVE CollapseSpaces(_)
CollapseSpaces(s) ==
    IF s = "" THEN ""
    ELSE IF IsSpace(Head(s)) THEN " " \o CollapseSpaces(LStrip(s))
    ELSE Head(s) \o CollapseSpaces(Tail(s))

_clean_for_matching(text) ==
    IF text = "" THEN "" ELSE Strip(Lower(CollapseSpaces(RemoveMarkdown(text))))

(***************************************************************************)
(* _verify_calculated: CAGR, margin, and the FY<year> value branch         *)
(***************************************************************************)

\* a financial series is a function from its years to values in hundredths;
\* the empty dict is the function with the empty domain
EmptySeries == << >>
Years(series) == DOMAIN series
SetMin(S) == CHOOSE x \in S : \A y \in S : x <= y
SetMax(S) == CHOOSE x \in S : \A y \in S : x >= y

\* ((end_val / start_val) ** (1/n) - 1) * 100 in tenths of a percent, as
\* f"{cagr:.1f}" shows it (start_val > 0, end_val >= 0, n > 0).  For n = 1 the
\* quotient is rounded directly; for n > 1 the tenth c is the one with
\* (1 + (c - 0.5)/1000)^n <= end/start < (1 + (c + 0.5)/1000)^n, in integers.
Cagr10(start_val, end_val, n) ==
    LET g == Gcd(start_val, end_val)
        sv == start_val \div g
        ev == end_val \div g
    IN IF n = 1 THEN RoundDiv((ev - sv) * 1000, sv)
       ELSE CHOOSE c \in -1000..1000 :
              /\ sv * Pow(2000 + 2 * c - 1, n) <= ev * Pow(2000, n)
              /\ ev * Pow(2000, n) < sv * Pow(2000 + 2 * c + 1, n)

\* (ebitda / revenue) * 100 in tenths of a percent, as f"{margin:.1f}" shows it
Margin10(ebitda_val, revenue_val) == RoundDiv(ebitda_val * 1000, revenue_val)

CagrReference(start_yr, end_yr, start_val, end_val, n) ==
    "CAGR = ((FY" \o IntToStr(end_yr) \o "_Revenue / FY" \o IntToStr(start_yr)
        \o "_Revenue)^(1/" \o IntToStr(n) \o ") - 1) × 100"
      \o "\n" \o "= ((" \o Fmt2(end_val) \o " / " \o Fmt2(start_val)
        \o ")^(1/" \o IntToStr(n) \o ") - 1) × 100"
      \o "\n" \o "= " \o Fmt1(Cagr10(start_val, end_val, n)) \o "%"

MarginReference(yr, ebitda_val, revenue_val) ==
    "EBITDA Margin = (FY" \o IntToStr(yr) \o "_EBITDA / FY" \o IntToStr(yr)
        \o "_Revenue) × 100"
      \o "\n" \o "= (" \o Fmt2(ebitda_val) \o " / " \o Fmt2(revenue_val) \o ") × 100"
      \o "\n" \o "= " \o Fmt1(Margin10(ebitda_val, revenue_val)) \o "%"

\* the CAGR branch returns a Citation (lines 146-166)
CagrComputable(claim, financials) ==
    LET revenue == financials.revenue
    IN /\ Contains(claim, "CAGR")
       /\ Cardinality(Years(revenue)) >= 2
       /\ revenue[SetMin(Years(revenue))] > 0
       /\ SetMax(Years(revenue)) - SetMin(Years(revenue)) > 0

\* the margin branch returns a Citation (lines 169-189)
MarginComputable(claim, financials) ==
    LET common == Years(financials.ebitda) \cap Years(financials.revenue)
    IN /\ Contains(claim, "Margin")
       /\ common # {}
       /\ financials.revenue[SetMax(common)] > 0

\* re.search(r'FY(\d{2,4}).*?₹?([\d.]+)\s*Cr', claim) -------------------------
Rupee == "₹"

IsNumChar(c) == IsDigit(c) \/ c = "."

\* length of the run of [\d.] characters starting at b
RECURSIVE NumRun(_, _)
NumRun(s, b) == IF IsNumChar(Char(s, b)) THEN 1 + NumRun(s, b + 1) ELSE 0

\* the first position from c on that holds no whitespace
RECURSIVE SkipSpaces(_, _)
SkipSpaces(s, c) == IF IsSpace(Char(s, c)) THEN SkipSpaces(s, c + 1) ELSE c

\* ([\d.]+)\s*Cr matches at b: the greedy run must take every [\d.] character,
\* since what follows it has to be whitespace or the C of Cr
NumAt(s, b) ==
    /\ NumRun(s, b) >= 1
    /\ StartsAt(s, SkipSpaces(s, b + NumRun(s, b)), "Cr")

\* ₹?([\d.]+)\s*Cr matches at a: where group 2 starts, 0 when there is no match
ValueStart(s, a) ==
    IF NumAt(s, a) THEN a
    ELSE IF StartsAt(s, a, Rupee) /\ NumAt(s, a + Len(Rupee)) THEN a + Len(Rupee)
    ELSE 0

\* .*? from q: the positions the lazy run can stop at, none past a newline
LazyStops(s, q) ==
    {a \in q..Len(s) : ValueStart(s, a) # 0 /\ ~Contains(SubSeq(s, q, a - 1), "\n")}

\* the pattern matches with FY at p and a year of d digits
FyMatchAt(s, p, d) ==
    /\ StartsAt(s, p, "FY")
    /\ \A i \in 0..(d - 1) : IsDigit(Char(s, p + 2 + i))
    /\ LazyStops(s, p + 2 + d) # {}

\* the match re.search returns: leftmost FY, longest year, shortest .*?
fy_match(claim) ==
    LET starts == {p \in 1..Len(claim) : \E d \in 2..4 : FyMatchAt(claim, p, d)}
    IN IF starts = {} THEN [matched |-> FALSE, year_str |-> "", value_str |-> ""]
       ELSE LET p == SetMin(starts)
                d == SetMax({e \in 2..4 : FyMatchAt(claim, p, e)})
                b == ValueStart(claim, SetMin(LazyStops(claim, p + 2 + d)))
            IN [matched |-> TRUE,
                year_str |-> SubSeq(claim, p + 2, p + 1 + d),
                value_str |-> SubSeq(claim, b, b + NumRun(claim, b) - 1)]

RECURSIVE RemoveDots(_)
RemoveDots(s) ==
    IF s = "" THEN ""
    ELSE IF Head(s) = "." THEN RemoveDots(Tail(s))
    ELSE Head(s) \o RemoveDots(Tail(s))

RECURSIVE DigitsToNat(_)
DigitsToNat(s) ==
    IF s = "" THEN 0
    ELSE DigitsToNat(SubSeq(s, 1, Len(s) - 1)) * 10
           + (CHOOSE k \in 0..9 : Char(Digits, k + 1) = Char(s, Len(s)))

CountDots(s) == Cardinality({i \in 1..Len(s) : Char(s, i) = "."})

\* float(text) for a text of digits and dots: ValueError unless it holds at
\* most one dot and at least one digit ("1.2.3" and "." raise)
FloatParses(s) == CountDots(s) <= 1 /\ Len(s) - CountDots(s) >= 1

\* the parsed value as the fraction num/den, den a power of ten
FloatNum(s) == DigitsToNat(RemoveDots(s))
FloatDen(s) ==
    IF CountDots(s) = 0 THEN 1
    ELSE Pow(10, Len(s) - (CHOOSE i \in 1..Len(s) : Char(s, i) = "."))

\* abs(series[year] - value) < 1, the series value in hundredths
WithinOne(series_val, s) ==
    Abs(series_val * FloatDen(s) - FloatNum(s) * 100) < 100 * FloatDen(s)

\* int(year_str), 2000 added to a two-digit year
FyYear(year_str) ==
    IF Len(year_str) = 2 THEN 2000 + DigitsToNat(year_str) ELSE DigitsToNat(year_str)

(***************************************************************************)
(* data_extractor.py: the extracted record (to_dict) and validate          *)
(***************************************************************************)

\* CompanyData() as extract() starts from it.  extract() never assigns name
\* (_extract_basic_info ends in `pass`), and _extract_swot always stores the
\* four categories.
NoFinancials ==
    [revenue |-> EmptySeries, ebitda |-> EmptySeries, pat |-> EmptySeries,
     pat_margin |-> EmptySeries, roce |-> EmptySeries, roe |-> EmptySeries,
     asset_turnover |-> EmptySeries, borrowings |-> EmptySeries,
     equity |-> EmptySeries]

CompanyData ==
    [name |-> "", business_description |-> "", website |-> "", domain |-> "",
     segment |-> "", products_services |-> << >>, industries_served |-> "",
     headquarters |-> "", founded |-> "", employees |-> "",
     shareholders |-> << >>, key_milestones |-> << >>, certifications |-> << >>,
     awards |-> << >>, partners |-> << >>, clients |-> << >>,
     key_operational_indicators |-> << >>,
     swot |-> [strengths |-> << >>, weaknesses |-> << >>,
               opportunities |-> << >>, threats |-> << >>],
     global_presence |-> << >>, future_plans |-> << >>, market_size |-> << >>,
     facilities |-> << >>, financials |-> NoFinancials]

\* to_dict(): every field under its own key; of the financials the eight
\* series below (equity is not exported)
to_dict(data) ==
    [data EXCEPT !.financials =
        [revenue |-> data.financials.revenue, ebitda |-> data.financials.ebitda,
         pat |-> data.financials.pat, pat_margin |-> data.financials.pat_margin,
         roce |-> data.financials.roce, roe |-> data.financials.roe,
         asset_turnover |-> data.financials.asset_turnover,
         borrowings |-> data.financials.borrowings]]

\* validate(): the issues, in the order they are appended
validate_issues(data) ==
    (IF data.business_description = "" THEN <<"Missing business description">> ELSE << >>)
    \o (IF data.website = "" THEN <<"Missing website URL">> ELSE << >>)
    \o (IF Years(data.financials.revenue) = {} THEN <<"Missing revenue data">> ELSE << >>)
    \o (IF Years(data.financials.ebitda) = {} THEN <<"Missing EBITDA data">> ELSE << >>)
    \o (IF Len(data.products_services) = 0
        THEN <<"Warning: No products/services extracted">> ELSE << >>)
    \o (IF Len(data.shareholders) = 0
        THEN <<"Warning: No shareholders extracted">> ELSE << >>)

validate_is_valid(data) ==
    ~\E i \in 1..Len(validate_issues(data)) : Contains(validate_issues(data)[i], "Missing")

(***************************************************************************)
(* _flatten_dict over the keys of to_dict, in insertion order              *)
(***************************************************************************)

\* sum(list)
RECURSIVE SumOf(_)
SumOf(seq) == IF Len(seq) = 0 THEN 0 ELSE Head(seq) + SumOf(Tail(seq))

RECURSIVE Concat(_)
Concat(seqs) == IF Len(seqs) = 0 THEN << >> ELSE Head(seqs) \o Concat(Tail(seqs))

\* the years of a series in ascending order
RECURSIVE SortedYears(_)
SortedYears(S) == IF S = {} THEN << >> ELSE <<SetMin(S)>> \o SortedYears(S \ {SetMin(S)})

Leaf(name, is_str, value) == [name |-> name, is_str |-> is_str, value |-> value]

\* a list of strings under new_key: (f"{new_key}[{i}]", item)
FlattenStrList(new_key, items) ==
    [i \in 1..Len(items) |-> Leaf(new_key \o "[" \o IntToStr(i - 1) \o "]", TRUE, items[i])]

\* a dict whose values are leaves: keys in insertion order, num_keys the keys
\* holding numbers
FlattenLeafDict(new_key, d, keys, num_keys) ==
    [i \in 1..Len(keys) |->
        IF keys[i] \in num_keys THEN Leaf(new_key \o "." \o keys[i], FALSE, "")
        ELSE Leaf(new_key \o "." \o keys[i], TRUE, d[keys[i]])]

\* a list of dicts under new_key: each flattened under f"{new_key}[{i}]"
FlattenDictList(new_key, items, keys, num_keys) ==
    Concat([i \in 1..Len(items) |->
        FlattenLeafDict(new_key \o "[" \o IntToStr(i - 1) \o "]", items[i], keys, num_keys)])

\* a series {year: value}: one numeric leaf per year
FlattenSeries(new_key, series) ==
    LET ys == SortedYears(Years(series))
    IN [i \in 1..Len(ys) |-> Leaf(new_key \o "." \o IntToStr(ys[i]), FALSE, "")]

StrKeys == {"name", "business_description", "website", "domain", "segment",
            "industries_served", "headquarters", "founded", "employees"}

ToDictKeys ==
    <<"name", "business_description", "website", "domain", "segment",
      "products_services", "industries_served", "headquarters", "founded",
      "employees", "shareholders", "key_milestones", "certifications", "awards",
      "partners", "clients", "key_operational_indicators", "swot",
      "global_presence", "future_plans", "market_size", "facilities", "financials">>

SwotKeys == <<"strengths", "weaknesses", "opportunities", "threats">>

FinancialKeys ==
    <<"revenue", "ebitda", "pat", "pat_margin", "roce", "roe", "asset_turnover",
      "borrowings">>

FlattenField(d, k) ==
    IF k \in StrKeys THEN <<Leaf(k, TRUE, d[k])>>
    ELSE IF k = "shareholders"
      THEN FlattenDictList(k, d[k], <<"name", "value", "type">>, {"value"})
    ELSE IF k = "key_milestones"
      THEN FlattenDictList(k, d[k], <<"date", "milestone">>, {})
    ELSE IF k = "market_size"
      THEN FlattenDictList(k, d[k],
             <<"source", "market", "region", "date", "size", "growth">>, {})
    ELSE IF k = "swot"
      THEN Concat([i \in 1..4 |-> FlattenStrList(k \o "." \o SwotKeys[i], d[k][SwotKeys[i]])])
    ELSE IF k = "financials"
      THEN Concat([i \in 1..Len(FinancialKeys) |->
                     FlattenSeries(k \o "." \o FinancialKeys[i], d[k][FinancialKeys[i]])])
    ELSE FlattenStrList(k, d[k])

_flatten_dict(d) == Concat([i \in 1..Len(ToDictKeys) |-> FlattenField(d, ToDictKeys[i])])

(***************************************************************************)
(* _verify_calculated, _verify_web_data, _verify_onepager, _verify_claim   *)
(***************************************************************************)

\* what a call gives back: a Citation, or the exception it raised
Returned(citation) == [exc |-> "", citation |-> citation]
Raised(exc) == [exc |-> exc, citation |-> Citation(0, "", FALSE, "", "", 0, "")]

CalculatedCitation(slide_num, claim, reference) ==
    Citation(slide_num, claim, TRUE, "calculated", reference, 0, "")

FinancialDataCitation(slide_num, claim, metric, year, value) ==
    Citation(slide_num, claim, TRUE, "onepager",
             "Financial data: " \o metric \o " FY" \o IntToStr(year) \o " = " \o Rupee
                \o Fmt2(value) \o " Cr", 0, "")

CalculatedNotVerified(slide_num, claim) ==
    Citation(slide_num, claim, FALSE, "unverified", "Calculated value not verified", 0, "")

\* lines 191-233: the FY<year> value branch and the final rejection
VerifyFyValue(slide_num, claim, financials) ==
    LET m == fy_match(claim)
        year == FyYear(m.year_str)
        revenue == financials.revenue
        ebitda == financials.ebitda
    IN IF ~m.matched THEN Returned(CalculatedNotVerified(slide_num, claim))
       ELSE IF ~FloatParses(m.value_str) THEN Raised("ValueError")
       ELSE IF year \in Years(revenue) /\ WithinOne(revenue[year], m.value_str)
         THEN Returned(FinancialDataCitation(slide_num, claim, "Revenue", year, revenue[year]))
       ELSE IF year \in Years(ebitda) /\ WithinOne(ebitda[year], m.value_str)
         THEN Returned(FinancialDataCitation(slide_num, claim, "EBITDA", year, ebitda[year]))
       ELSE Returned(CalculatedNotVerified(slide_num, claim))

_verify_calculated(slide_num, claim, extracted) ==
    LET financials == extracted.financials
        revenue == financials.revenue
        ebitda == financials.ebitda
        start_yr == SetMin(Years(revenue))
        end_yr == SetMax(Years(revenue))
        yr == SetMax(Years(ebitda) \cap Years(revenue))
    IN IF CagrComputable(claim, financials)
         THEN Returned(CalculatedCitation(slide_num, claim,
                CagrReference(start_yr, end_yr, revenue[start_yr], revenue[end_yr],
                              end_yr - start_yr)))
       ELSE IF MarginComputable(claim, financials)
         THEN Returned(CalculatedCitation(slide_num, claim,
                MarginReference(yr, ebitda[yr], revenue[yr])))
       ELSE VerifyFyValue(slide_num, claim, financials)

\* web_data as the verifier reads it: market_data (nonempty: the dict is
\* truthy) with its facts ("" for an absent or empty fact) and sources, and
\* company_info, the scraped pages in mapping order.  web_data = {} is NoWeb.
NoMarketData ==
    [nonempty |-> FALSE, india_market_size |-> "", cagr |-> "", key_drivers |-> << >>,
     sources |-> << >>]
NoWeb == [market_data |-> NoMarketData, company_info |-> << >>]

\* one entry of source_urls: a MarketDataSource (hasattr source_url) or a dict
\* (absent keys default to 'Source' and '#'); anything else adds nothing
SourceUrl(src) ==
    IF src.kind = "object" THEN <<"[" \o src.source_name \o "](" \o src.source_url \o ")">>
    ELSE IF src.kind = "dict"
      THEN <<"[" \o (IF src.has_name THEN src.source_name ELSE "Source") \o "]("
               \o (IF src.has_url THEN src.source_url ELSE "#") \o ")">>
    ELSE << >>

\* source_ref with the first source only
SourceRefFirstOnly(market_data) ==
    LET source_urls == Concat([i \in 1..Len(market_data.sources) |->
                                 SourceUrl(market_data.sources[i])])
    IN IF Len(source_urls) > 0 THEN Head(source_urls) ELSE "Industry estimates"

SourceRef(market_data) ==
    LET source_urls == Concat([i \in 1..Len(market_data.sources) |->
                                 SourceUrl(market_data.sources[i])])
    IN IF Len(source_urls) > 0 THEN Join(source_urls, "\n") ELSE "Industry estimates"

WebCitation(slide_num, claim, reference) ==
    Citation(slide_num, claim, TRUE, "web", reference, 0, "")

\* line 308 with the source kind of the branches above it left in place
WebNotFoundAsWeb(slide_num, claim) ==
    Citation(slide_num, claim, FALSE, "web", "Web data not found", 0, "")

WebNotFound(slide_num, claim) ==
    Citation(slide_num, claim, FALSE, "unverified", "Web data not found", 0, "")

\* any(word in content for word in claim_lower.split()): every word counts
PageMatchesAnyWord(page, claim) ==
    LET words == Split(Lower(claim))
    IN \E i \in 1..Len(words) : Contains(Lower(page.content), words[i])

\* any(word in content for word in claim_lower.split()[:3])
PageMatches(page, claim) ==
    LET words == Take(Split(Lower(claim)), 3)
    IN \E i \in 1..Len(words) : Contains(Lower(page.content), words[i])

_verify_web_data(slide_num, claim, web) ==
    LET market_data == web.market_data
        source_ref == SourceRef(market_data)
        pages == web.company_info
        hits == {i \in 1..Len(pages) : PageMatches(pages[i], claim)}
    IN IF /\ market_data.nonempty
          /\ (Contains(claim, "Market Size") \/ Contains(claim, "Industry Size")
                \/ Contains(claim, "$"))
          /\ market_data.india_market_size # ""
       THEN WebCitation(slide_num, claim,
              "Data: India market size = " \o market_data.india_market_size
                \o "\nSources:\n" \o source_ref)
       ELSE IF /\ market_data.nonempty
               /\ (Contains(claim, "Growth") \/ Contains(Upper(claim), "CAGR"))
               /\ market_data.cagr # ""
       THEN WebCitation(slide_num, claim,
              "Data: Industry CAGR = " \o market_data.cagr \o "\nSources:\n" \o source_ref)
       ELSE IF /\ market_data.nonempty
               /\ (Contains(claim, "Positioned for") \/ Contains(Lower(claim), "driven by"))
               /\ Len(market_data.key_drivers) > 0
       THEN WebCitation(slide_num, claim,
              "Industry drivers: " \o Join(market_data.key_drivers, ", ")
                \o "\nSources:\n" \o source_ref)
       ELSE IF hits # {}
       THEN WebCitation(slide_num, claim,
              "Source: Company Website - " \o pages[SetMin(hits)].page_type
                \o "\nURL: " \o pages[SetMin(hits)].url)
       ELSE WebNotFound(slide_num, claim)

\* the loop body with `>=` in place of `>` at lines 329 and 336: a line that
\* equals the best score replaces the best match
OnepagerStepLastWins(best, clean_claim, line_num, line) ==
    LET clean_line == _clean_for_matching(line)
        direct == Contains(clean_line, clean_claim) \/ Contains(clean_claim, clean_line)
        d_num == Len(clean_claim)
        d_den == IF Len(clean_line) > 1 THEN Len(clean_line) ELSE 1
        b1 == IF direct /\ d_num * best.den >= best.num * d_den
              THEN [num |-> d_num, den |-> d_den, line_num |-> line_num]
              ELSE best
        claim_words == Range(Split(clean_claim))
        line_words == Range(Split(clean_line))
        o_num == Cardinality(claim_words \cap line_words)
        o_den == Cardinality(claim_words)
    IN IF o_den > 2 /\ 2 * o_num > o_den /\ o_num * b1.den >= b1.num * o_den
       THEN [num |-> o_num, den |-> o_den, line_num |-> line_num]
       ELSE b1

\* one pass of the loop over md_lines (lines 321-338); best is the score so
\* far as the fraction num/den with the line it came from (0: no best_match)
OnepagerStep(best, clean_claim, line_num, line) ==
    LET clean_line == _clean_for_matching(line)
        direct == Contains(clean_line, clean_claim) \/ Contains(clean_claim, clean_line)
        d_num == Len(clean_claim)
        d_den == IF Len(clean_line) > 1 THEN Len(clean_line) ELSE 1
        b1 == IF direct /\ d_num * best.den > best.num * d_den
              THEN [num |-> d_num, den |-> d_den, line_num |-> line_num]
              ELSE best
        claim_words == Range(Split(clean_claim))
        line_words == Range(Split(clean_line))
        o_num == Cardinality(claim_words \cap line_words)
        o_den == Cardinality(claim_words)
    IN IF o_den > 2 /\ 2 * o_num > o_den /\ o_num * b1.den > b1.num * o_den
       THEN [num |-> o_num, den |-> o_den, line_num |-> line_num]
       ELSE b1

RECURSIVE BestMatch(_, _, _, _)
BestMatch(best, clean_claim, lines, line_num) ==
    IF line_num > Len(lines) THEN best
    ELSE BestMatch(OnepagerStep(best, clean_claim, line_num, lines[line_num]),
                   clean_claim, lines, line_num + 1)

LineCitation(slide_num, claim, line_num, line) ==
    Citation(slide_num, claim, TRUE, "onepager",
             "Line " \o IntToStr(line_num) \o ": " \o Strip(line), line_num, Strip(line))

FieldCitation(slide_num, claim, field_name) ==
    Citation(slide_num, claim, TRUE, "onepager", "Field: " \o field_name, 0, "")

NoMatchingSource(slide_num, claim) ==
    Citation(slide_num, claim, FALSE, "unverified",
             "No matching source found in one-pager", 0, "")

\* the field loop with the test of line 355 only: the claim inside the field
MatchingFieldsHoldingClaim(clean_claim, extracted) ==
    LET fields == _flatten_dict(extracted)
    IN {i \in 1..Len(fields) :
          /\ fields[i].is_str
          /\ Contains(_clean_for_matching(fields[i].value), clean_claim)}

\* lines 353-364: the flattened string fields that match the cleaned claim
MatchingFields(clean_claim, extracted) ==
    LET fields == _flatten_dict(extracted)
    IN {i \in 1..Len(fields) :
          /\ fields[i].is_str
          /\ \/ Contains(_clean_for_matching(fields[i].value), clean_claim)
             \/ Contains(clean_claim, _clean_for_matching(fields[i].value))}

_verify_onepager(slide_num, claim, lines, extracted) ==
    LET clean_claim == _clean_for_matching(claim)
        best == BestMatch([num |-> 0, den |-> 1, line_num |-> 0], clean_claim, lines, 1)
        matching == MatchingFields(clean_claim, extracted)
    IN IF best.line_num # 0 /\ 10 * best.num > 3 * best.den
       THEN LineCitation(slide_num, claim, best.line_num, lines[best.line_num])
       ELSE IF matching # {}
       THEN FieldCitation(slide_num, claim, _flatten_dict(extracted)[SetMin(matching)].name)
       ELSE NoMatchingSource(slide_num, claim)

EmptyOrTooShort(slide_num, claim) ==
    Citation(slide_num, claim, FALSE, "unverified", "Empty or too short", 0, "")

\* _verify_claim with its first two checks in the other order: the web check
\* before the calculated one
_verify_claim_web_first(slide_num, claim, lines, extracted, web) ==
    IF claim = "" \/ Len(Strip(claim)) < 3 THEN Returned(EmptyOrTooShort(slide_num, claim))
    ELSE IF _is_web_claim(claim) THEN Returned(_verify_web_data(slide_num, claim, web))
    ELSE IF _is_calculated_claim(claim) THEN _verify_calculated(slide_num, claim, extracted)
    ELSE Returned(_verify_onepager(slide_num, claim, lines, extracted))

_verify_claim(slide_num, claim, lines, extracted, web) ==
    IF claim = "" \/ Len(Strip(claim)) < 3 THEN Returned(EmptyOrTooShort(slide_num, claim))
    ELSE IF _is_calculated_claim(claim) THEN _verify_calculated(slide_num, claim, extracted)
    ELSE IF _is_web_claim(claim) THEN Returned(_verify_web_data(slide_num, claim, web))
    ELSE Returned(_verify_onepager(slide_num, claim, lines, extracted))

(***************************************************************************)
(* verify_slide_content, _filter_verified, generate_report                 *)
(***************************************************************************)

\* SlideContent(title, sections, metrics, hooks): sections is the dict as the
\* sequence of its (name, items) entries in insertion order; hooks is None or
\* a list.  The citations field of SlideContent is never read here.
Section(name, items) == [name |-> name, items |-> items]
NoHooks == [none |-> TRUE, list |-> << >>]
Hooks(list) == [none |-> FALSE, list |-> list]
SlideContent(title, sections, metrics, hooks) ==
    [title |-> title, sections |-> sections, metrics |-> metrics, hooks |-> hooks]

\* verify_slide_content without its second loop (lines 89-92): the hooks get
\* no Citation
SlideClaimsWithoutHooks(slide) ==
    Concat([i \in 1..Len(slide.sections) |-> slide.sections[i].items])

\* the claims of a slide in the order verify_slide_content visits them: the
\* items of every section, then the hooks (`if slide_content.hooks`)
SlideClaims(slide) ==
    Concat([i \in 1..Len(slide.sections) |-> slide.sections[i].items])
      \o (IF slide.hooks.none THEN << >> ELSE slide.hooks.list)

\* the loop bodies of verify_slide_content: every claim is verified in order
\* and its Citation appended; an exception ends the loops, so the Citations
\* appended are those before the first claim that raises (exc is "" when none
\* raises)
FirstRaised(outcome) ==
    LET raised == {i \in 1..Len(outcome) : outcome[i].exc # ""}
    IN IF raised = {} THEN Len(outcome) + 1 ELSE SetMin(raised)

VerifyClaims(outcome, stop) ==
    [exc |-> IF stop > Len(outcome) THEN "" ELSE outcome[stop].exc,
     slide_citations |-> [i \in 1..(stop - 1) |-> outcome[i].citation]]

verify_slide_content(slide_num, slide, lines, extracted, web) ==
    LET claims == SlideClaims(slide)
        outcome == [i \in 1..Len(claims) |->
                        _verify_claim(slide_num, claims[i], lines, extracted, web)]
    IN VerifyClaims(outcome, FirstRaised(outcome))

\* the any() of _filter_verified without its `c.verified and`
is_verified_any_citation(item, cits) ==
    \E i \in 1..Len(cits) :
        \/ cits[i].claim = item
        \/ Contains(cits[i].claim, item)
        \/ Contains(item, cits[i].claim)

\* any(c.verified and (c.claim == item or item in c.claim or c.claim in item)
\*     for c in self.verifier.citations)
is_verified(item, cits) ==
    \E i \in 1..Len(cits) :
        /\ cits[i].verified
        /\ (cits[i].claim = item \/ Contains(cits[i].claim, item)
              \/ Contains(item, cits[i].claim))

RECURSIVE FilterItems(_, _)
FilterItems(items, cits) ==
    IF Len(items) = 0 THEN << >>
    ELSE (IF is_verified(Head(items), cits) THEN <<Head(items)>> ELSE << >>)
           \o FilterItems(Tail(items), cits)

\* verified_sections: a section is stored only `if verified_items`
RECURSIVE FilterSections(_, _)
FilterSections(sections, cits) ==
    IF Len(sections) = 0 THEN << >>
    ELSE LET verified_items == FilterItems(Head(sections).items, cits)
         IN (IF Len(verified_items) > 0
             THEN <<Section(Head(sections).name, verified_items)>> ELSE << >>)
              \o FilterSections(Tail(sections), cits)

\* hooks=verified_hooks if verified_hooks else None
FilterHooks(hooks, cits) ==
    LET verified_hooks == IF hooks.none THEN << >> ELSE FilterItems(hooks.list, cits)
    IN IF Len(verified_hooks) > 0 THEN Hooks(verified_hooks) ELSE NoHooks

FilterSlide(slide, cits) ==
    SlideContent(slide.title, FilterSections(slide.sections, cits), slide.metrics,
                 FilterHooks(slide.hooks, cits))

_filter_verified(slides, cits) == [i \in 1..Len(slides) |-> FilterSlide(slides[i], cits)]

SourceTypes == {"onepager", "calculated", "web", "unverified"}

\* generate_report: the VerificationReport (total, verified, by_type over the
\* source types that occur, rate as the fraction verified*100/total or 100/1)
generate_report(cits) ==
    LET total == Len(cits)
        verified == Cardinality({i \in 1..total : cits[i].verified})
        present == {cits[i].source_type : i \in 1..total}
    IN [total_claims |-> total,
        verified_count |-> verified,
        by_source_type |->
            [t \in present |-> Cardinality({i \in 1..total : cits[i].source_type = t})],
        verification_rate |-> IF total > 0 THEN <<verified * 100, total>> ELSE <<100, 1>>]

(***************************************************************************)
(* The inputs of a run: one-pager files with what DataExtractor.extract    *)
(* returns for them, what the scraper returns, and the draft slides the    *)
(* content writer (rule-based text and LLM hooks) hands to the verifier    *)
(***************************************************************************)

DocAcme ==
    "## Business Description\n\nAcme makes steel pipes\n\n## Website\n\nhttps://acme.in\n\n## Financials Status\n\nRevenue From Operations | 2022: 10000 | 2024: 21000\nOperating EBITDA | 2024: 4000\n"

DataAcme ==
    [CompanyData EXCEPT !.business_description = "Acme makes steel pipes",
                        !.website = "https://acme.in",
                        !.financials.revenue = (2022 :> 10000) @@ (2024 :> 21000),
                        !.financials.ebitda = (2024 :> 4000)]

DocBolt ==
    "## Business Description\nBolt forges valves\n## Website\nhttps://bolt.in\n## Financials Status\nRevenue From Operations | 2024: 21000\nOperating EBITDA | 2023: 5"

DataBolt ==
    [CompanyData EXCEPT !.business_description = "Bolt forges valves",
                        !.website = "https://bolt.in",
                        !.financials.revenue = (2024 :> 21000),
                        !.financials.ebitda = (2023 :> 500)]

DocDune ==
    "## Business Description\n\nDune builds kilns\n\n## Financials Status\n\nRevenue From Operations | 2024: 90\n"

DataDune ==
    [CompanyData EXCEPT !.business_description = "Dune builds kilns",
                        !.financials.revenue = (2024 :> 9000)]

MarketSource(source_name, source_url) ==
    [kind |-> "object", source_name |-> source_name, source_url |-> source_url,
     has_name |-> TRUE, has_url |-> TRUE]

\* MARKET_DATA_SOURCES['manufacturing'] with a scraped homepage
WebManufacturing ==
    [market_data |->
        [nonempty |-> TRUE,
         india_market_size |-> "$15 billion (2024)",
         cagr |-> "7-9% (2024-2030)",
         key_drivers |-> <<"PLI scheme", "Make in India", "Defense localization",
                           "EV adoption">>,
         sources |-> <<MarketSource("IBEF Electronics Manufacturing Report",
                         "https://www.ibef.org/industry/electronics-system-design-manufacturing"),
                       MarketSource("Mordor Intelligence",
                         "https://www.mordorintelligence.com/industry-reports/electronics-manufacturing-services-market")>>],
     company_info |-> <<[page_type |-> "homepage", url |-> "https://acme.in",
                         content |-> "Acme steel pipes for oil and gas"]>>]

\* MARKET_DATA_SOURCES['manufacturing'] for a company without a website: no
\* page is scraped
WebMarketOnly == [WebManufacturing EXCEPT !.company_info = << >>]

\* a bundle whose market facts come without any source
WebGeneralWithFacts ==
    [market_data |-> [NoMarketData EXCEPT !.nonempty = TRUE,
                                          !.india_market_size = "$15 billion (2024)",
                                          !.cagr = "7-9% (2024-2030)"],
     company_info |-> <<[page_type |-> "about", url |-> "https://bolt.in/about",
                         content |-> "Bolt is positioned in Pune"]>>]

\* _get_market_data_with_urls for a domain without an entry, and one scraped page
WebGeneral ==
    [market_data |-> [NoMarketData EXCEPT !.nonempty = TRUE],
     company_info |-> <<[page_type |-> "about", url |-> "https://bolt.in/about",
                         content |-> "Bolt is positioned in Pune"]>>]

DraftAcme ==
    <<SlideContent("Business Profile",
        <<Section("Business Overview", <<"Acme makes steel pipes", "Zebra quantum flux">>),
          Section("Industries Served", <<"AI">>)>>,
        "metrics 1", Hooks(<<"AI-ready steel plant">>)),
      SlideContent("Financial Performance",
        <<Section("Key Metrics", <<"EBITDA Margin: 19.0%", "EBITDA Margin: 25.0%">>),
          Section("Revenue", <<"FY24: ₹210 Cr", "FY24: ₹215 Cr">>)>>,
        "metrics 2", NoHooks),
      SlideContent("Investment Highlights",
        <<Section("Market Opportunity", <<"Market Size: $15 billion (2024)">>)>>,
        "metrics 3", Hooks(<<"Positioned for growth", "Revenue CAGR: 44.9%">>))>>

DraftBolt ==
    <<SlideContent("Business Profile",
        <<Section("Key Metrics", <<"Revenue CAGR: 12.0%", "EBITDA Margin: 19.0%">>),
          Section("Revenue", <<"FY24: ₹210 Cr", "FY24: ₹210 Cr">>)>>,
        "metrics 1", Hooks(<<"Market Size: $15 billion (2024)">>)),
      SlideContent("Financial Performance",
        <<Section("Profitability", <<"Margin FY23: ₹5.2 Cr", "Margin FY24: ₹210 Cr">>)>>,
        "metrics 2", Hooks(<<"Positioned for growth", "Industry Growth: 9%">>))>>

DraftCrux ==
    <<SlideContent("Business Profile",
        <<Section("Products & Services",
            <<"Steel valves", "Margin FY24: ₹1.2.3 Cr", "Valves for oil rigs">>)>>,
        "metrics 1", Hooks(<<"Bolt forges valves">>))>>

DraftDune ==
    <<SlideContent("Business Profile",
        <<Section("Business Overview", <<"Dune builds kilns">>),
          Section("Market Position",
            <<"Industry Size: Dune builds kilns", "Market Size: $15 billion, 8% CAGR">>)>>,
        "metrics 1", Hooks(<<"Margin: Dune builds kilns">>))>>

\* TokenTracker.track: one TokenUsage of usage_log
TokenUsage(task, prompt_tokens, completion_tokens) ==
    [task |-> task, prompt_tokens |-> prompt_tokens,
     completion_tokens |-> completion_tokens,
     total_tokens |-> prompt_tokens + completion_tokens]

\* TokenTracker.get_summary over a usage log
get_summary(log) ==
    [total_calls |-> Len(log),
     total_tokens |-> SumOf([i \in 1..Len(log) |-> log[i].total_tokens]),
     prompt_tokens |-> SumOf([i \in 1..Len(log) |-> log[i].prompt_tokens]),
     completion_tokens |-> SumOf([i \in 1..Len(log) |-> log[i].completion_tokens]),
     tasks |-> {log[i].task : i \in 1..Len(log)}]

\* one entry of the `companies` list of process_batch, with the outcome of
\* every external step of its run; tracked holds the TokenUsage of every LLM
\* call the content writer makes for it (none when the LLM is unavailable)
Company(name, md_exists, md_text, extracted_record, scrape_ok, scraped, draft, tracked) ==
    [name |-> name, md_exists |-> md_exists, md_text |-> md_text,
     extracted_record |-> extracted_record, scrape_ok |-> scrape_ok,
     scraped |-> scraped, draft |-> draft, tracked |-> tracked]

Companies ==
    {Company("Acme", TRUE, DocAcme, DataAcme, TRUE, WebManufacturing, DraftAcme,
             <<TokenUsage("text_shortening:business overview", 52, 12),
               TokenUsage("hook_generation_llm", 260, 31)>>),
     Company("Bolt", TRUE, DocBolt, DataBolt, TRUE, WebGeneral, DraftBolt,
             <<TokenUsage("hook_generation_llm", 255, 24)>>),
     Company("Crux", TRUE, DocBolt, DataBolt, FALSE, NoWeb, DraftCrux,
             <<TokenUsage("hook_generation_llm", 255, 5)>>),
     Company("Dune", TRUE, DocDune, DataDune, TRUE, WebMarketOnly, DraftDune, << >>),
     Company("Echo", FALSE, "", CompanyData, FALSE, NoWeb, << >>, << >>)}

\* the longest `companies` list of a process_batch call
MaxBatch == 2

RECURSIVE SeqsUpTo(_, _)
SeqsUpTo(S, n) ==
    IF n = 0 THEN {<< >>}
    ELSE SeqsUpTo(S, n - 1)
           \cup {Append(q, x) : q \in {r \in SeqsUpTo(S, n - 1) : Len(r) = n - 1}, x \in S}

(***************************************************************************)
(* main.py: KelpPipeline.process step by step, under process_batch         *)
(***************************************************************************)

VARIABLES
    companies,       \* the argument of process_batch
    skip_scraping,   \* the argument of process_batch
    k,               \* index of the company the batch loop is at
    pc,              \* where process() stands
    results,         \* process_batch's results dict, keyed by company name
    md_content,      \* process(): the text read from md_file
    data,            \* process(): the CompanyData extract() returned
    extracted,       \* process(): extractor.to_dict()
    is_valid,        \* process(): validate()[0]
    issues,          \* process(): validate()[1]
    web_data,        \* process(): what the scraper gave, {} otherwise
    slide_content,   \* process(): the writer's slides
    slide_i,         \* process(): the slide the verification loop is at
    all_citations,   \* process(): the Citations of this run
    verified_slides, \* process(): what _filter_verified returned
    citations,       \* verifier.citations
    md_lines,        \* verifier.md_lines
    extracted_data,  \* verifier.extracted_data
    verifier_web,    \* verifier.web_data
    decks,           \* what PPTAssembler.build was given, one entry per deck
    reports,         \* the VerificationReports generated, one per report
    usage_log,       \* token_tracker.usage_log (the module-level singleton)
    token_files,     \* what save_to_file wrote, one entry per TokenUsage file
    classify_args,   \* a call of DomainClassifier.classify on its own: << >> or
                     \* <<the arguments, with what the LLM does when asked>>
    classify_result, \* << >> until that call has returned, then <<its result>>
    writer_args,     \* a call of ContentWriter.generate_slide_content on its own:
                     \* << >> or <<the writer's state and arguments>>
    writer_result,   \* << >> until that call has ended, then <<its outcome>>
    verify_args,     \* a call of set_sources and then _verify_claim on a fresh
                     \* CitationVerifier: << >> or <<the arguments>>
    verify_result,   \* << >> until _verify_claim has ended, then <<its outcome>>
    slide2_args,     \* a call of _generate_slide_2 on a writer of its own, and of
                     \* verify_slide_content on its slide: << >> or <<the record
                     \* and the bundle both agents are given>>
    slide2,          \* << >> until _generate_slide_2 has returned, then <<the slide>>
    slide2_verified, \* << >> until verify_slide_content has ended, then <<its
                     \* outcome>>
    item_args,       \* the composing of one shortenable item of slide 1 or 3 on
                     \* a writer of its own: << >> or <<the section, the source
                     \* text, and what the LLM does when asked>>
    item_result,     \* << >> until the item is composed, then <<the item>>
    row_args,        \* a call of DataExtractor._parse_financial_row on its own:
                     \* << >> or <<the arguments>>
    row_result,      \* << >> until that call has returned, then <<the series>>
    scraped_pages,   \* scraper.scraped_pages of one WebScraper on its own
    scrape_calls,    \* the scrape_all_sources calls made on that scraper, each
                     \* with what the web answered
    scrape_results   \* what those calls returned, in order

pipeline_vars ==
    <<companies, skip_scraping, k, pc, results, md_content, data, extracted,
      is_valid, issues, web_data, slide_content, slide_i, all_citations,
      verified_slides, citations, md_lines, extracted_data, verifier_web,
      decks, reports, usage_log, token_files>>

\* the calls made on an agent alone, outside a pipeline run
classifier_vars == <<classify_args, classify_result>>
writer_vars == <<writer_args, writer_result>>
verify_vars == <<verify_args, verify_result>>
slide2_vars == <<slide2_args, slide2, slide2_verified>>
item_vars == <<item_args, item_result>>
row_vars == <<row_args, row_result>>
scraper_vars == <<scraped_pages, scrape_calls, scrape_results>>
unit_vars ==
    <<classifier_vars, writer_vars, verify_vars, slide2_vars, item_vars, row_vars,
      scraper_vars>>

\* no call is made on an agent alone, except on the one named
NoCallBut(agent) ==
    /\ IF agent = "classifier" THEN TRUE
       ELSE classify_args = << >> /\ classify_result = << >>
    /\ IF agent = "writer" THEN TRUE
       ELSE writer_args = << >> /\ writer_result = << >>
    /\ IF agent = "verifier" THEN TRUE
       ELSE verify_args = << >> /\ verify_result = << >>
    /\ IF agent = "slide 2" THEN TRUE
       ELSE slide2_args = << >> /\ slide2 = << >> /\ slide2_verified = << >>
    /\ IF agent = "item" THEN TRUE
       ELSE item_args = << >> /\ item_result = << >>
    /\ IF agent = "row" THEN TRUE
       ELSE row_args = << >> /\ row_result = << >>
    /\ IF agent = "scraper" THEN TRUE
       ELSE scraped_pages = << >> /\ scrape_calls = << >> /\ scrape_results = << >>

vars == <<pipeline_vars, unit_vars>>

batch_vars == <<companies, skip_scraping>>
verifier_sources == <<md_lines, extracted_data, verifier_web>>
outputs == <<decks, reports, token_files>>

\* KelpPipeline.__init__ (a fresh CitationVerifier, token_tracker.reset()) and
\* the call of process_batch(companies, skip_scraping)
Init ==
    /\ companies \in SeqsUpTo(Companies, MaxBatch)
    /\ skip_scraping \in BOOLEAN
    /\ k = 1
    /\ pc = "batch"
    /\ results = << >>
    /\ md_content = ""
    /\ data = CompanyData
    /\ extracted = to_dict(CompanyData)
    /\ is_valid = FALSE
    /\ issues = << >>
    /\ web_data = NoWeb
    /\ slide_content = << >>
    /\ slide_i = 1
    /\ all_citations = << >>
    /\ verified_slides = << >>
    /\ citations = << >>
    /\ md_lines = << >>
    /\ extracted_data = to_dict(CompanyData)
    /\ verifier_web = NoWeb
    /\ decks = << >>
    /\ reports = << >>
    /\ usage_log = << >>
    /\ token_files = << >>
    /\ NoCallBut("")

\* the locals of process() are gone once it returns or raises
LocalsDropped ==
    /\ md_content' = ""
    /\ data' = CompanyData
    /\ extracted' = to_dict(CompanyData)
    /\ is_valid' = FALSE
    /\ issues' = << >>
    /\ web_data' = NoWeb
    /\ slide_content' = << >>
    /\ slide_i' = 1
    /\ all_citations' = << >>
    /\ verified_slides' = << >>

\* results[name] = entry
Stored(dict, name, entry) ==
    [n \in DOMAIN dict \cup {name} |-> IF n = name THEN entry ELSE dict[n]]

\* process_batch without its try/except: the exception of process() ends the
\* loop over the companies
FailedStopsBatch(error) ==
    /\ results' = Stored(results, companies[k].name,
                         [success |-> FALSE, error |-> error, total_claims |-> 0,
                          verified |-> 0])
    /\ k' = Len(companies) + 1
    /\ pc' = "batch"
    /\ LocalsDropped

\* process() raised: the except branch of process_batch, then the next company
Failed(error) ==
    /\ results' = Stored(results, companies[k].name,
                         [success |-> FALSE, error |-> error, total_claims |-> 0,
                          verified |-> 0])
    /\ k' = k + 1
    /\ pc' = "batch"
    /\ LocalsDropped

\* lines 77-83: the file is checked and read
StartProcess ==
    /\ pc = "batch"
    /\ k <= Len(companies)
    /\ IF ~companies[k].md_exists
       THEN /\ Failed("FileNotFoundError")
            /\ UNCHANGED <<unit_vars, batch_vars, usage_log, citations, verifier_sources, outputs>>
       ELSE /\ md_content' = companies[k].md_text
            /\ pc' = "extract"
            /\ UNCHANGED <<unit_vars, batch_vars, usage_log, k, results, data, extracted, is_valid, issues,
                           web_data, slide_content, slide_i, all_citations,
                           verified_slides, citations, verifier_sources, outputs>>

\* lines 85-93: extract, to_dict, validate; the issues are logged and nothing
\* reads is_valid afterwards
ExtractData ==
    /\ pc = "extract"
    /\ data' = companies[k].extracted_record
    /\ extracted' = to_dict(data')
    /\ is_valid' = validate_is_valid(data')
    /\ issues' = validate_issues(data')
    /\ pc' = "scrape"
    /\ UNCHANGED <<unit_vars, batch_vars, usage_log, k, results, md_content, web_data, slide_content, slide_i,
                   all_citations, verified_slides, citations, verifier_sources, outputs>>

\* lines 105-130: web_data stays {} when scraping is skipped or raises
ScrapeWeb ==
    /\ pc = "scrape"
    /\ web_data' = IF ~skip_scraping /\ companies[k].scrape_ok
                   THEN companies[k].scraped ELSE NoWeb
    /\ pc' = "generate"
    /\ UNCHANGED <<unit_vars, batch_vars, usage_log, k, results, md_content, data, extracted, is_valid, issues,
                   slide_content, slide_i, all_citations, verified_slides, citations,
                   verifier_sources, outputs>>

\* lines 132-136: the writer's slides; each of the writer's LLM calls is
\* appended to the usage log (content_writer.py 513-518, 605-610)
GenerateContent ==
    /\ pc = "generate"
    /\ slide_content' = companies[k].draft
    /\ usage_log' = usage_log \o companies[k].tracked
    /\ pc' = "set_sources"
    /\ UNCHANGED <<unit_vars, batch_vars, k, results, md_content, data, extracted, is_valid, issues,
                   web_data, slide_i, all_citations, verified_slides, citations,
                   verifier_sources, outputs>>

\* lines 145-152 with set_sources (citation_verifier.py 61-74): the sources
\* are replaced, self.citations is left as it is
SetSources ==
    /\ pc = "set_sources"
    /\ extracted_data' = extracted
    /\ verifier_web' = web_data
    /\ md_lines' = SplitOn(md_content, "\n")
    /\ all_citations' = << >>
    /\ slide_i' = 1
    /\ pc' = "verify"
    /\ UNCHANGED <<unit_vars, batch_vars, usage_log, k, results, md_content, data, extracted, is_valid, issues,
                   web_data, slide_content, verified_slides, citations, outputs>>

\* the verification loop with a verifier that looks into self.citations and
\* skips the claims it already holds a Citation for
VerifySlideSkippingCited ==
    /\ pc = "verify"
    /\ slide_i <= Len(slide_content)
    /\ LET r == verify_slide_content(slide_i, slide_content[slide_i], md_lines,
                                     extracted_data, verifier_web)
           fresh == SelectSeq(r.slide_citations,
                              LAMBDA c : \A i \in 1..Len(citations) :
                                            citations[i].claim # c.claim)
       IN /\ citations' = citations \o fresh
          /\ IF r.exc # ""
             THEN /\ Failed(r.exc)
                  /\ UNCHANGED <<unit_vars, batch_vars, usage_log, verifier_sources, outputs>>
             ELSE /\ all_citations' = all_citations \o fresh
                  /\ slide_i' = slide_i + 1
                  /\ UNCHANGED <<unit_vars, batch_vars, usage_log, k, pc, results, md_content, data,
                                 extracted, is_valid, issues, web_data, slide_content,
                                 verified_slides, verifier_sources, outputs>>

\* lines 153-157: one pass of the loop, verify_slide_content(i, slide); an
\* exception leaves the Citations appended before it in verifier.citations
VerifySlide ==
    /\ pc = "verify"
    /\ slide_i <= Len(slide_content)
    /\ LET r == verify_slide_content(slide_i, slide_content[slide_i], md_lines,
                                     extracted_data, verifier_web)
       IN /\ citations' = citations \o r.slide_citations
          /\ IF r.exc # ""
             THEN /\ Failed(r.exc)
                  /\ UNCHANGED <<unit_vars, batch_vars, usage_log, verifier_sources, outputs>>
             ELSE /\ all_citations' = all_citations \o r.slide_citations
                  /\ slide_i' = slide_i + 1
                  /\ UNCHANGED <<unit_vars, batch_vars, usage_log, k, pc, results, md_content, data, extracted,
                                 is_valid, issues, web_data, slide_content,
                                 verified_slides, verifier_sources, outputs>>

\* line 166: _filter_verified(slide_content), once every slide is verified
FilterVerified ==
    /\ pc = "verify"
    /\ slide_i > Len(slide_content)
    /\ verified_slides' = _filter_verified(slide_content, citations)
    /\ pc' = "assemble"
    /\ UNCHANGED <<unit_vars, batch_vars, usage_log, k, results, md_content, data, extracted, is_valid, issues,
                   web_data, slide_content, slide_i, all_citations, citations,
                   verifier_sources, outputs>>

\* lines 168-183: the deck is built from verified_slides and saved
AssemblePpt ==
    /\ pc = "assemble"
    /\ decks' = Append(decks, [company |-> companies[k].name, slides |-> verified_slides])
    /\ pc' = "report"
    /\ UNCHANGED <<unit_vars, batch_vars, usage_log, k, results, md_content, data, extracted, is_valid, issues,
                   web_data, slide_content, slide_i, all_citations, verified_slides,
                   citations, verifier_sources, reports, token_files>>

\* lines 185-233 and 300-301: the report over verifier.citations, the token
\* usage file (save_to_file writes get_summary()), the stats, and the success
\* entry of process_batch
GenerateReport ==
    /\ pc = "report"
    /\ LET report == generate_report(citations)
       IN /\ reports' = Append(reports, [company |-> companies[k].name, report |-> report])
          /\ results' = Stored(results, companies[k].name,
                               [success |-> TRUE, error |-> "",
                                total_claims |-> report.total_claims,
                                verified |-> report.verified_count])
    /\ token_files' = Append(token_files, [company |-> companies[k].name,
                                            summary |-> get_summary(usage_log)])
    /\ k' = k + 1
    /\ pc' = "batch"
    /\ LocalsDropped
    /\ UNCHANGED <<unit_vars, batch_vars, usage_log, citations, verifier_sources, decks>>

\* line 306: process_batch returns results
ReturnResults ==
    /\ pc = "batch"
    /\ k > Len(companies)
    /\ pc' = "returned"
    /\ UNCHANGED <<unit_vars, batch_vars, usage_log, k, results, md_content, data, extracted, is_valid, issues,
                   web_data, slide_content, slide_i, all_citations, verified_slides,
                   citations, verifier_sources, outputs>>

Next ==
    \/ StartProcess
    \/ ExtractData
    \/ ScrapeWeb
    \/ GenerateContent
    \/ SetSources
    \/ VerifySlide
    \/ FilterVerified
    \/ AssemblePpt
    \/ GenerateReport
    \/ ReturnResults

Spec == Init /\ [][Next]_vars

\* process_batch is one thread running a for loop over a finite list, and every
\* step of process() returns or raises: a step that can be taken is taken.
\* Weak fairness of set_sources and of the verification loop is written out
\* (WF_v(A) is []<>~ENABLED <<A>>_v \/ []<><<A>>_v) with the guard of the action
\* as its enabling condition: both actions assign every variable under their
\* guard, and after a step of either the run is at a later slide or statement.
SetSourcesTaken == []<>(pc # "set_sources")
VerifySlideTaken == []<>(~(pc = "verify" /\ slide_i <= Len(slide_content)))

FairSpec ==
    /\ Spec
    /\ WF_vars(StartProcess)
    /\ WF_vars(ExtractData)
    /\ WF_vars(ScrapeWeb)
    /\ WF_vars(GenerateContent)
    /\ SetSourcesTaken
    /\ VerifySlideTaken
    /\ WF_vars(FilterVerified)
    /\ WF_vars(AssemblePpt)
    /\ WF_vars(GenerateReport)
    /\ WF_vars(ReturnResults)

(***************************************************************************)
(* Properties of a batch run                                               *)
(***************************************************************************)

\* the draft items of a run in the order of the slides: per slide the items of
\* its sections, then its hooks, each with the number of its slide
DraftItems(slide) == Concat([j \in 1..Len(slide.sections) |-> slide.sections[j].items])
DraftHooks(slide) == IF slide.hooks.none THEN << >> ELSE slide.hooks.list
RunItems(slides) ==
    Concat([i \in 1..Len(slides) |->
        [j \in 1..Len(DraftItems(slides[i]) \o DraftHooks(slides[i])) |->
            [slide_num |-> i, claim |-> (DraftItems(slides[i]) \o DraftHooks(slides[i]))[j]]]])

\* text is an item or a hook of one of the slides
InSlides(text, slides) ==
    \E i \in 1..Len(slides) :
        \E j \in 1..Len(DraftItems(slides[i]) \o DraftHooks(slides[i])) :
            (DraftItems(slides[i]) \o DraftHooks(slides[i]))[j] = text

\* process() has filtered the slides of company k and not yet returned
Filtered == pc \in {"assemble", "report"}

\* the entry of the batch with this name
CompanyNamed(name) == CHOOSE c \in Companies : c.name = name

\* a claim with no relation to the sources: at least 3 characters, no
\* growth/margin and no industry/market wording, no word in common with a
\* document line, neither inside nor around a non-empty extracted field
Unrelated(claim, lines, record) ==
    /\ Len(Strip(claim)) >= 3
    /\ ~_is_calculated_claim(claim)
    /\ ~_is_web_claim(claim)
    /\ \A n \in 1..Len(lines) :
          Range(Split(_clean_for_matching(claim)))
            \cap Range(Split(_clean_for_matching(lines[n]))) = {}
    /\ \A f \in 1..Len(_flatten_dict(record)) :
          LET field == _flatten_dict(record)[f]
          IN (field.is_str /\ field.value # "") =>
                /\ ~Contains(_clean_for_matching(field.value), _clean_for_matching(claim))
                /\ ~Contains(_clean_for_matching(claim), _clean_for_matching(field.value))

\* C1: a claim unrelated to every document line and every non-empty extracted
\* field gets a Citation with verified=False and a non-empty reason, and is
\* absent from the filtered slides.
C1_UnrelatedClaimRejected ==
    \A i \in 1..Len(all_citations) :
        Unrelated(all_citations[i].claim, md_lines, extracted_data) =>
            /\ ~all_citations[i].verified
            /\ all_citations[i].source_reference # ""
            /\ Filtered => ~InSlides(all_citations[i].claim, verified_slides)

\* C2: an item or hook whose Citation has verified=False (the too-short
\* rejection included) is not in the slides _filter_verified returns.
C2_UnverifiedItemNotAssembled ==
    Filtered =>
        \A i \in 1..Len(all_citations) :
            ~all_citations[i].verified => ~InSlides(all_citations[i].claim, verified_slides)

\* the one-decimal figure _verify_calculated derives for a claim
RecomputedFigure(claim, financials) ==
    LET revenue == financials.revenue
        ebitda == financials.ebitda
        start_yr == SetMin(Years(revenue))
        end_yr == SetMax(Years(revenue))
        yr == SetMax(Years(ebitda) \cap Years(revenue))
    IN IF CagrComputable(claim, financials)
       THEN Fmt1(Cagr10(revenue[start_yr], revenue[end_yr], end_yr - start_yr))
       ELSE Fmt1(Margin10(ebitda[yr], revenue[yr]))

\* C3: a claim is verified as 'calculated' only if its text contains the
\* one-decimal figure recomputed from the financial series ('EBITDA Margin:
\* 19.0%' for ebitda 40 and revenue 210, not 'EBITDA Margin: 25.0%').
C3_CalculatedOnlyWithRecomputedFigure ==
    \A i \in 1..Len(all_citations) :
        all_citations[i].source_type = "calculated" =>
            Contains(all_citations[i].claim,
                     RecomputedFigure(all_citations[i].claim, extracted_data.financials))

\* the claim reads FY<yy>: ₹<amount> Cr and has no growth or margin wording
IsFyAmountClaim(claim) ==
    /\ fy_match(claim).matched
    /\ Len(fy_match(claim).year_str) = 2
    /\ claim = "FY" \o fy_match(claim).year_str \o ": " \o Rupee
                 \o fy_match(claim).value_str \o " Cr"
    /\ FloatParses(fy_match(claim).value_str)
    /\ ~_is_calculated_claim(claim)

\* the named year is in the revenue or the EBITDA series and that value
\* differs from the amount by less than 1
FyAmountInSeries(claim, financials) ==
    LET year == FyYear(fy_match(claim).year_str)
        amount == fy_match(claim).value_str
    IN \/ year \in Years(financials.revenue) /\ WithinOne(financials.revenue[year], amount)
       \/ year \in Years(financials.ebitda) /\ WithinOne(financials.ebitda[year], amount)

\* C4: a claim 'FY<yy>: ₹<amount> Cr' without growth or margin wording is
\* verified exactly when the named year is in the revenue or EBITDA series and
\* the series value differs from the amount by less than 1, whatever the
\* document holds.
C4_FyAmountCheckedAgainstSeries ==
    \A i \in 1..Len(all_citations) :
        IsFyAmountClaim(all_citations[i].claim) =>
            (all_citations[i].verified
                <=> FyAmountInSeries(all_citations[i].claim, extracted_data.financials))

\* some verified Citation of the verifier has a claim equal to, containing or
\* contained in the text
HasVerifiedMatch(text) ==
    \E i \in 1..Len(citations) :
        /\ citations[i].verified
        /\ \/ citations[i].claim = text
           \/ Contains(citations[i].claim, text)
           \/ Contains(text, citations[i].claim)

Surviving(items) == SelectSeq(items, LAMBDA text : HasVerifiedMatch(text))

\* C5: _filter_verified keeps an item or hook exactly when some verified
\* Citation has a claim equal to, containing or contained in its text; a
\* section left without items is absent from the filtered slide, and the hooks
\* are None when none survives.
C5_FilterKeepsExactlyMatchedItems ==
    Filtered =>
        /\ Len(verified_slides) = Len(slide_content)
        /\ \A i \in 1..Len(slide_content) :
              LET kept == SelectSeq(slide_content[i].sections,
                                    LAMBDA s : Len(Surviving(s.items)) > 0)
                  hooks == Surviving(DraftHooks(slide_content[i]))
              IN /\ verified_slides[i].title = slide_content[i].title
                 /\ verified_slides[i].metrics = slide_content[i].metrics
                 /\ Len(verified_slides[i].sections) = Len(kept)
                 /\ \A j \in 1..Len(kept) :
                       /\ verified_slides[i].sections[j].name = kept[j].name
                       /\ verified_slides[i].sections[j].items = Surviving(kept[j].items)
                 /\ verified_slides[i].hooks.none <=> (Len(hooks) = 0)
                 /\ verified_slides[i].hooks.list = hooks

\* a filtered slide that lost a whole section and all of its hooks and kept
\* another section
C5_SectionAndHooksDropped ==
    /\ Filtered
    /\ \E i \in 1..Len(slide_content) :
          /\ Len(verified_slides[i].sections) < Len(slide_content[i].sections)
          /\ Len(verified_slides[i].sections) > 0
          /\ ~slide_content[i].hooks.none
          /\ verified_slides[i].hooks.none

\* C6: when company k is filtered and reported, the verifier's citation list
\* holds only the Citations of company k's slides: the filter reads no
\* Citation of an earlier company, and every report's total_claims is the
\* number of items and hooks of its company.
C6_CitationsOfOneCompanyOnly ==
    /\ Filtered =>
          /\ citations = all_citations
          /\ verified_slides = _filter_verified(slide_content, all_citations)
    /\ \A r \in 1..Len(reports) :
          reports[r].report.total_claims
            = Len(RunItems(CompanyNamed(reports[r].company).draft))

\* C7: verify_slide_content gives every item and hook a Citation whatever its
\* text: no run ends in the ValueError of an unparseable amount, and every
\* item of the slides verified so far has its Citation.
C7_UnparseableClaimIsUnverified ==
    /\ \A n \in DOMAIN results : results[n].error # "ValueError"
    /\ pc = "verify" =>
          Len(all_citations) = Len(RunItems(SubSeq(slide_content, 1, slide_i - 1)))

\* C8: every Citation the verifier holds is verified exactly when its source
\* kind is onepager, calculated or web, unverified exactly when the kind is
\* 'unverified', and has a non-empty reference.
C8_CitationWellFormed ==
    \A i \in 1..Len(citations) :
        /\ citations[i].source_type \in SourceTypes
        /\ citations[i].verified
             <=> citations[i].source_type \in {"onepager", "calculated", "web"}
        /\ ~citations[i].verified <=> citations[i].source_type = "unverified"
        /\ citations[i].source_reference # ""

\* the verifier holds Citations of every source kind and of the three
\* rejections that carry different reasons
C8_EveryKindCreated ==
    /\ {citations[i].source_type : i \in 1..Len(citations)} = SourceTypes
    /\ {"Empty or too short", "Calculated value not verified", "Web data not found"}
         \subseteq {citations[i].source_reference : i \in 1..Len(citations)}
    /\ \E i \in 1..Len(citations) :
          StartsAt(citations[i].source_reference, 1, "Financial data: ")
    /\ \E i \in 1..Len(citations) :
          StartsAt(citations[i].source_reference, 1, "Field: ")

\* every slide of the run has been verified
AllSlidesVerified == Filtered \/ (pc = "verify" /\ slide_i > Len(slide_content))

\* C9: once every slide of a run is verified, the run's Citations are one per
\* section item and hook, in order, each with the item's slide number and its
\* complete text, so their number is the number of items plus hooks, repeated
\* texts included.
C9_OneCitationPerItem ==
    AllSlidesVerified =>
        /\ Len(all_citations) = Len(RunItems(slide_content))
        /\ \A i \in 1..Len(all_citations) :
              /\ all_citations[i].slide_num = RunItems(slide_content)[i].slide_num
              /\ all_citations[i].claim = RunItems(slide_content)[i].claim

\* a verified run with hooks and with the same text twice on one slide
C9_RepeatedTextAndHooks ==
    /\ AllSlidesVerified
    /\ \E i \in 1..Len(slide_content) : ~slide_content[i].hooks.none
    /\ \E i, j \in 1..Len(all_citations) :
          /\ i < j
          /\ all_citations[i].claim = all_citations[j].claim
          /\ all_citations[i].slide_num = all_citations[j].slide_num

\* C10: process() stops before content generation, verification and assembly
\* and builds no deck when the document is absent or validation reports a
\* required field missing.
C10_InvalidInputStopsTheRun ==
    /\ pc \in {"generate", "set_sources", "verify", "assemble", "report"} => is_valid
    /\ \A d \in 1..Len(decks) :
          /\ CompanyNamed(decks[d].company).md_exists
          /\ validate_is_valid(CompanyNamed(decks[d].company).extracted_record)

\* the names of the batch are pairwise different
DistinctNames ==
    \A i, j \in 1..Len(companies) : companies[i].name = companies[j].name => i = j

\* process() of this company raises: its file is absent, or a claim of its
\* draft makes the verifier raise against the sources of its run
ProcessRaises(c) ==
    \/ ~c.md_exists
    \/ \E i \in 1..Len(c.draft) :
          verify_slide_content(i, c.draft[i], SplitOn(c.md_text, "\n"),
                               to_dict(c.extracted_record),
                               IF ~skip_scraping /\ c.scrape_ok THEN c.scraped ELSE NoWeb
                              ).exc # ""

\* C11: process_batch over distinctly named companies returns, and what it
\* returns holds a result for every company of the list: success=False with
\* the error for a company whose process() raises, success=True for every
\* other company, also for the companies after one that raised.
C11_BatchIsolatesFailures ==
    /\ <>(pc = "returned")
    /\ [](pc = "returned" /\ DistinctNames =>
            /\ DOMAIN results = {companies[i].name : i \in 1..Len(companies)}
            /\ \A i \in 1..Len(companies) :
                  LET r == results[companies[i].name]
                  IN IF ProcessRaises(companies[i])
                     THEN ~r.success /\ r.error \in {"FileNotFoundError", "ValueError"}
                     ELSE r.success /\ r.error = "")

\* a returned batch whose first company raised and whose second was processed
C11_FailureThenSuccess ==
    /\ pc = "returned"
    /\ Len(companies) = 2
    /\ DistinctNames
    /\ ProcessRaises(companies[1])
    /\ ~results[companies[1].name].success
    /\ results[companies[2].name].success
    /\ \E d \in 1..Len(decks) : decks[d].company = companies[2].name

\* C12: the usage log is empty while a company's process() run has not yet
\* reached the content writer, and every token usage file saved holds the
\* summary of the LLM calls of its own company only.
C12_TokenLogPerCompany ==
    /\ pc \in {"extract", "scrape", "generate"} => usage_log = << >>
    /\ \A f \in 1..Len(token_files) :
          token_files[f].summary =
              get_summary(CompanyNamed(token_files[f].company).tracked)

\* the run at hand processes the first company of the batch again, with the
\* same one-pager, record, web data and draft, after a first run that succeeded
SecondRunOfFirstCompany ==
    /\ k > 1
    /\ k <= Len(companies)
    /\ companies[k] = companies[1]
    /\ Len(reports) > 0
    /\ reports[1].company = companies[1].name

FromCalculated(c) ==
    \/ c.source_type = "calculated"
    \/ c.source_type = "onepager" /\ StartsAt(c.source_reference, 1, "Financial data: ")
    \/ c.source_type = "unverified" /\ c.source_reference = "Calculated value not verified"

FromWeb(c) ==
    \/ c.source_type = "web"
    \/ c.source_type = "unverified" /\ c.source_reference = "Web data not found"

FromDocument(c) ==
    \/ c.source_type = "onepager"
          /\ (StartsAt(c.source_reference, 1, "Line ")
                \/ StartsAt(c.source_reference, 1, "Field: "))
    \/ c.source_type = "unverified"
          /\ c.source_reference = "No matching source found in one-pager"

DocumentWouldVerify(claim) ==
    _verify_onepager(1, claim, md_lines, extracted_data).verified

BundleSources ==
    UNION {Range(c.scraped.market_data.sources) : c \in Companies}
BundlePages ==
    UNION {Range(c.scraped.company_info) : c \in Companies}

\* the reference names a source of a bundle with its URL, or ends with the URL
\* of a scraped page
NamesRealSource(reference) ==
    \/ \E src \in BundleSources :
          /\ src.source_name # ""
          /\ StartsAt(src.source_url, 1, "http")
          /\ Contains(reference, "[" \o src.source_name \o "](" \o src.source_url \o ")")
    \/ \E page \in BundlePages :
          /\ StartsAt(page.url, 1, "http")
          /\ Contains(reference, "\nURL: " \o page.url)

\* C15: every verified Citation of kind 'web' has a reference that names a
\* source of the bundle with its URL or the URL of the scraped page that
\* matched, and holds none of the placeholders 'Industry estimates', '#', 'N/A'.
C15_WebCitationNamesItsSource ==
    \A i \in 1..Len(citations) :
        citations[i].source_type = "web" /\ citations[i].verified =>
            /\ NamesRealSource(citations[i].source_reference)
            /\ ~Contains(citations[i].source_reference, "Industry estimates")
            /\ ~Contains(citations[i].source_reference, "](#)")
            /\ ~Contains(citations[i].source_reference, "URL: N/A")

\* the verifier holds a web Citation backed by market data and one backed by
\* a scraped page of a bundle without market facts
C15_MarketAndPageCitations ==
    /\ \E i \in 1..Len(citations) :
          /\ citations[i].source_type = "web"
          /\ StartsAt(citations[i].source_reference, 1, "Data: India market size = ")
    /\ \E i \in 1..Len(citations) :
          /\ citations[i].source_type = "web"
          /\ StartsAt(citations[i].source_reference, 1, "Source: Company Website - ")
          /\ _is_web_claim(citations[i].claim)

(***************************************************************************)
(* domain_classifier.py: DomainClassifier.classify                         *)
(***************************************************************************)

\* DOMAIN_KEYWORDS in insertion order: key and keywords of every domain
DOMAIN_KEYWORDS ==
    <<[key |-> "manufacturing",
       keywords |-> <<"manufacturing", "production", "plant", "facility", "industrial",
                      "oem", "b2b", "fabrication", "assembly", "machining", "factory",
                      "electronics", "components", "hardware">>],
      [key |-> "technology",
       keywords |-> <<"software", "saas", "platform", "cloud", "digital", "ai", "ml",
                      "development", "consulting", "integration", "it services", "tech",
                      "data", "analytics", "salesforce", "odoo", "erp", "crm">>],
      [key |-> "logistics",
       keywords |-> <<"logistics", "supply chain", "warehousing", "transportation",
                      "distribution", "freight", "3pl", "last mile", "express", "delivery",
                      "shipping", "cargo", "courier">>],
      [key |-> "consumer",
       keywords |-> <<"brand", "consumer", "d2c", "e-commerce", "retail", "wellness",
                      "fmcg", "marketplace", "lifestyle", "personal care", "food",
                      "beverage", "fashion", "beauty">>],
      [key |-> "healthcare",
       keywords |-> <<"pharma", "pharmaceutical", "healthcare", "medical", "biotech",
                      "diagnostics", "hospital", "therapeutic", "formulation", "drug",
                      "medicine", "clinical", "api", "generic">>],
      [key |-> "infrastructure",
       keywords |-> <<"construction", "infrastructure", "real estate", "developer",
                      "epc", "project", "contractor", "builder", "roads", "bridges",
                      "housing", "commercial">>],
      [key |-> "chemicals",
       keywords |-> <<"chemical", "polymer", "resin", "specialty", "formulation",
                      "additive", "coating", "petrochemical", "industrial chemicals",
                      "paints", "adhesives">>],
      [key |-> "automotive",
       keywords |-> <<"automotive", "auto components", "forging", "casting", "oem",
                      "tier-1", "aftermarket", "vehicle", "car", "truck", "two-wheeler",
                      "engine", "transmission">>]>>

DomainKeys == {DOMAIN_KEYWORDS[d].key : d \in 1..Len(DOMAIN_KEYWORDS)}

\* the `mappings` dict of _normalize_domain, in insertion order
DomainMappings ==
    <<<<"manufacturing", "manufacturing">>, <<"technology", "technology">>,
      <<"it services", "technology">>, <<"logistics", "logistics">>,
      <<"consumer", "consumer">>, <<"d2c", "consumer">>,
      <<"healthcare", "healthcare">>, <<"pharma", "healthcare">>,
      <<"infrastructure", "infrastructure">>, <<"real estate", "infrastructure">>,
      <<"chemicals", "chemicals">>, <<"automotive", "automotive">>>>

\* _normalize_domain: the first domain whose key or one of whose first three
\* keywords is in the lowered text, then the first mapping pattern in it, else
\* None ("")
_normalize_domain(domain_str) ==
    LET domain_lower == Lower(domain_str)
        by_key == {d \in 1..Len(DOMAIN_KEYWORDS) :
                     \/ Contains(domain_lower, DOMAIN_KEYWORDS[d].key)
                     \/ \E j \in 1..3 :
                           Contains(domain_lower, DOMAIN_KEYWORDS[d].keywords[j])}
        by_mapping == {m \in 1..Len(DomainMappings) :
                         Contains(domain_lower, DomainMappings[m][1])}
    IN IF by_key # {} THEN DOMAIN_KEYWORDS[SetMin(by_key)].key
       ELSE IF by_mapping # {} THEN DomainMappings[SetMin(by_mapping)][2]
       ELSE ""

\* a list built by a comprehension, every element computed once
List(seq) == << >> \o seq

\* the positions from i on where sub occurs in text
Occurrences(text, sub, i) == {j \in i..(Len(text) - Len(sub) + 1) : StartsAt(text, j, sub)}

\* str.count(sub) from position i on: the occurrences that do not overlap,
\* found from left to right (sub is not empty)
RECURSIVE CountFrom(_, _, _)
CountFrom(text, sub, i) ==
    IF Occurrences(text, sub, i) = {} THEN 0
    ELSE 1 + CountFrom(text, sub, SetMin(Occurrences(text, sub, i)) + Len(sub))

\* the result tuple of classify, with the calls that produced it
Classified(domain, confidence, reasoning, calls) ==
    [domain |-> domain, confidence |-> confidence, reasoning |-> reasoning,
     calls |-> calls]

\* the keyword scoring that answers None when no keyword is in the text
_classify_with_keywords_or_none(text) ==
    LET text_lower == Lower(text)
        counts == List([d \in 1..Len(DOMAIN_KEYWORDS) |->
                     List([j \in 1..Len(DOMAIN_KEYWORDS[d].keywords) |->
                        CountFrom(text_lower, Lower(DOMAIN_KEYWORDS[d].keywords[j]), 1)])])
        score == List([d \in 1..Len(DOMAIN_KEYWORDS) |-> SumOf(counts[d])])
        best == CHOOSE d \in 1..Len(DOMAIN_KEYWORDS) :
                    \A e \in 1..Len(DOMAIN_KEYWORDS) :
                        score[e] <= score[d] /\ (e < d => score[e] < score[d])
        total_score == SumOf(score)
        matched == SelectSeq([j \in 1..Len(DOMAIN_KEYWORDS[best].keywords) |-> j],
                             LAMBDA j : counts[best][j] > 0)
        names == [i \in 1..Len(matched) |-> DOMAIN_KEYWORDS[best].keywords[matched[i]]]
    IN Classified(IF total_score > 0 THEN DOMAIN_KEYWORDS[best].key ELSE "",
                  IF total_score = 0 THEN <<5, 10>>
                  ELSE IF 10 * score[best] + 3 * total_score <= 9 * total_score
                  THEN <<10 * score[best] + 3 * total_score, 10 * total_score>>
                  ELSE <<9, 10>>,
                  "Keyword matches: " \o Join(Take(names, 5), ", "),
                  <<"keywords">>)

\* _classify_with_keywords: score = sum of text_lower.count(keyword) per domain;
\* max() keeps the first domain with the highest score ('manufacturing' when
\* every score is 0); confidence min(0.9, best/total + 0.3), or 0.5 when the
\* total is 0, as the fraction <<numerator, denominator>>
_classify_with_keywords(text) ==
    LET text_lower == Lower(text)
        counts == List([d \in 1..Len(DOMAIN_KEYWORDS) |->
                     List([j \in 1..Len(DOMAIN_KEYWORDS[d].keywords) |->
                        CountFrom(text_lower, Lower(DOMAIN_KEYWORDS[d].keywords[j]), 1)])])
        score == List([d \in 1..Len(DOMAIN_KEYWORDS) |-> SumOf(counts[d])])
        best == CHOOSE d \in 1..Len(DOMAIN_KEYWORDS) :
                    \A e \in 1..Len(DOMAIN_KEYWORDS) :
                        score[e] <= score[d] /\ (e < d => score[e] < score[d])
        total_score == SumOf(score)
        matched == SelectSeq([j \in 1..Len(DOMAIN_KEYWORDS[best].keywords) |-> j],
                             LAMBDA j : counts[best][j] > 0)
        names == [i \in 1..Len(matched) |-> DOMAIN_KEYWORDS[best].keywords[matched[i]]]
    IN Classified(DOMAIN_KEYWORDS[best].key,
                  IF total_score = 0 THEN <<5, 10>>
                  ELSE IF 10 * score[best] + 3 * total_score <= 9 * total_score
                  THEN <<10 * score[best] + 3 * total_score, 10 * total_score>>
                  ELSE <<9, 10>>,
                  "Keyword matches: " \o Join(Take(names, 5), ", "),
                  <<"keywords">>)

\* re.search(r'\{[^}]+\}', response_text).group(): from the leftmost '{' that
\* has at least one character before the next '}', up to that '}'; "" when
\* there is no match
JsonMatch(text) ==
    LET closes(p) == {q \in (p + 1)..Len(text) : Char(text, q) = "}"}
        opens == {p \in 1..Len(text) :
                    /\ Char(text, p) = "{"
                    /\ closes(p) # {}
                    /\ SetMin(closes(p)) >= p + 2}
    IN IF opens = {} THEN ""
       ELSE SubSeq(text, SetMin(opens), SetMin(closes(SetMin(opens))))

\* a JSON value of the kinds a reply holds: a string, a number (in
\* hundredths) or null
JsonStr(text) == [type |-> "str", text |-> text, num |-> 0]
JsonNum(hundredths) == [type |-> "num", text |-> "", num |-> hundredths]
JsonNull == [type |-> "null", text |-> "", num |-> 0]

\* what json.loads returns for the objects the replies hold, keys in order;
\* any other text raises JSONDecodeError
JsonObjects ==
    <<[text |-> "{\"domain\": \"Technology\", \"confidence\": 0.85, \"reasoning\": \"sells software\"}",
       keys |-> <<"domain", "confidence", "reasoning">>,
       values |-> <<JsonStr("Technology"), JsonNum(85), JsonStr("sells software")>>],
      [text |-> "{\"domain\": \"technology\", \"confidence\": \"high\"}",
       keys |-> <<"domain", "confidence">>,
       values |-> <<JsonStr("technology"), JsonStr("high")>>],
      [text |-> "{\"domain\": \"logistics\", \"confidence\": \"0.7\"}",
       keys |-> <<"domain", "confidence">>,
       values |-> <<JsonStr("logistics"), JsonStr("0.7")>>],
      [text |-> "{\"domain\": \"aerospace\", \"confidence\": 0.9}",
       keys |-> <<"domain", "confidence">>,
       values |-> <<JsonStr("aerospace"), JsonNum(90)>>],
      [text |-> "{\"confidence\": 0.6}",
       keys |-> <<"confidence">>, values |-> <<JsonNum(60)>>],
      [text |-> "{\"domain\": null, \"confidence\": 0.6}",
       keys |-> <<"domain", "confidence">>, values |-> <<JsonNull, JsonNum(60)>>],
      [text |-> "{\"domain\": \"chemicals\"}",
       keys |-> <<"domain">>, values |-> <<JsonStr("chemicals")>>]>>

json_loads_ok(text) == \E o \in 1..Len(JsonObjects) : JsonObjects[o].text = text
json_loads(text) == JsonObjects[CHOOSE o \in 1..Len(JsonObjects) : JsonObjects[o].text = text]

HasKey(obj, key) == \E i \in 1..Len(obj.keys) : obj.keys[i] = key
Get(obj, key) == obj.values[CHOOSE i \in 1..Len(obj.keys) : obj.keys[i] = key]

\* float(x) of a JSON value returns: a number, or a string of digits with at
\* most one dot; None and any other string raise
FloatOk(v) ==
    \/ v.type = "num"
    \/ /\ v.type = "str"
       /\ \A i \in 1..Len(v.text) : IsNumChar(Char(v.text, i))
       /\ FloatParses(v.text)

FloatOf(v) ==
    IF v.type = "num" THEN <<v.num, 100>> ELSE <<FloatNum(v.text), FloatDen(v.text)>>

\* what ollama.generate does when called: it raises, or returns a response
\* whose 'response' entry is the text
LlmRaises == [raises |-> TRUE, response |-> ""]
LlmReplies(response) == [raises |-> FALSE, response |-> response]

\* _classify_with_llm: the try block returns the reply's domain when the reply
\* parses and names a key; a reply that does not, and every exception, ends
\* in _classify_with_keywords(text)
_classify_with_llm(text, llm) ==
    LET response_text == Strip(llm.response)
        json_match == JsonMatch(response_text)
        result == json_loads(json_match)
        domain_value == IF HasKey(result, "domain") THEN Get(result, "domain") ELSE JsonStr("")
        confidence_value ==
            IF HasKey(result, "confidence") THEN Get(result, "confidence") ELSE JsonNum(50)
        reasoning == IF HasKey(result, "reasoning") THEN Get(result, "reasoning").text
                     ELSE "LLM classification"
        keywords == _classify_with_keywords(text)
        fallback == [keywords EXCEPT !.calls = <<"llm", "keywords">>]
    IN IF llm.raises THEN fallback
       ELSE IF json_match = "" THEN fallback
       ELSE IF ~json_loads_ok(json_match) THEN fallback
       ELSE IF domain_value.type # "str" THEN fallback
       ELSE IF ~FloatOk(confidence_value) THEN fallback
       ELSE IF Lower(domain_value.text) \in DomainKeys
       THEN Classified(Lower(domain_value.text), FloatOf(confidence_value), reasoning,
                       <<"llm">>)
       ELSE fallback

\* classify that does not look at the hint
classify_ignoring_hint(business_description, products, domain_hint, ollama_available, llm) ==
    LET combined_text == business_description \o "\n\nProducts/Services: " \o products
    IN IF ollama_available THEN _classify_with_llm(combined_text, llm)
       ELSE _classify_with_keywords(combined_text)

\* classify(business_description, products, domain_hint) of a classifier whose
\* ollama_available flag is as given
classify(business_description, products, domain_hint, ollama_available, llm) ==
    LET normalized == _normalize_domain(domain_hint)
        combined_text == business_description \o "\n\nProducts/Services: " \o products
    IN IF domain_hint # "" /\ normalized # ""
       THEN Classified(normalized, <<95, 100>>,
                       "Domain specified in data pack: " \o domain_hint, << >>)
       ELSE IF ollama_available THEN _classify_with_llm(combined_text, llm)
       ELSE _classify_with_keywords(combined_text)

\* the texts, hints and LLM behaviours classify is called with
Descriptions ==
    {"", "Makes kites", "OEM plant software", "API drug formulation", "Freight cargo"}

ProductTexts == {"", "ERP, CRM"}

DomainHints ==
    {"", "Manufacturing", "IT Services", "Aerospace", "Specialty Pharma",
     "AUTOMOTIVE & EV", "Real Estate", "n/a"}

\* each behaviour with the kind of outcome it stands for
LlmOutcomes ==
    {[kind |-> "exception", llm |-> LlmRaises],
     [kind |-> "no json", llm |-> LlmReplies("I think this is a technology company.")],
     [kind |-> "no json", llm |-> LlmReplies("{}")],
     [kind |-> "valid",
      llm |-> LlmReplies("{\"domain\": \"Technology\", \"confidence\": 0.85, \"reasoning\": \"sells software\"}")],
     [kind |-> "valid",
      llm |-> LlmReplies("Here: {\"domain\": \"logistics\", \"confidence\": \"0.7\"} ok\n")],
     [kind |-> "valid", llm |-> LlmReplies("{\"domain\": \"chemicals\"}")],
     [kind |-> "non-numeric confidence",
      llm |-> LlmReplies("{\"domain\": \"technology\", \"confidence\": \"high\"}")],
     [kind |-> "domain outside the set",
      llm |-> LlmReplies("{\"domain\": \"aerospace\", \"confidence\": 0.9}")],
     [kind |-> "domain outside the set", llm |-> LlmReplies("{\"confidence\": 0.6}")],
     [kind |-> "exception", llm |-> LlmReplies("{\"domain\": null, \"confidence\": 0.6}")],
     [kind |-> "exception",
      llm |-> LlmReplies("{\"domain\": \"consumer\", \"meta\": {\"a\": 1}}")]}

ClassifyCalls ==
    [business_description : Descriptions, products : ProductTexts,
     domain_hint : DomainHints, ollama_available : BOOLEAN, outcome : LlmOutcomes]

\* the pipeline's variables as the constructor leaves them, with no batch
PipelineIdle ==
    /\ companies = << >>
    /\ skip_scraping = FALSE
    /\ k = 1
    /\ pc = "batch"
    /\ results = << >>
    /\ md_content = ""
    /\ data = CompanyData
    /\ extracted = to_dict(CompanyData)
    /\ is_valid = FALSE
    /\ issues = << >>
    /\ web_data = NoWeb
    /\ slide_content = << >>
    /\ slide_i = 1
    /\ all_citations = << >>
    /\ verified_slides = << >>
    /\ citations = << >>
    /\ md_lines = << >>
    /\ extracted_data = to_dict(CompanyData)
    /\ verifier_web = NoWeb
    /\ decks = << >>
    /\ reports = << >>
    /\ token_files = << >>

\* a classifier is constructed and one call of classify is about to be made
InitClassifier ==
    /\ PipelineIdle
    /\ usage_log = << >>
    /\ NoCallBut("classifier")
    /\ \E call \in ClassifyCalls : classify_args = <<call>>
    /\ classify_result = << >>

\* the call of classify returns
Classify ==
    /\ classify_args # << >>
    /\ classify_result = << >>
    /\ classify_result' =
          <<classify(classify_args[1].business_description, classify_args[1].products,
                     classify_args[1].domain_hint, classify_args[1].ollama_available,
                     classify_args[1].outcome.llm)>>
    /\ UNCHANGED <<pipeline_vars, classify_args, writer_vars, verify_vars, slide2_vars,
                   item_vars, row_vars,
                   scraper_vars>>

NextClassifier == Classify

SpecClassifier == InitClassifier /\ [][NextClassifier]_vars

(***************************************************************************)
(* Properties of classify                                                  *)
(***************************************************************************)

FixedDomainKeys ==
    {"manufacturing", "technology", "logistics", "consumer", "healthcare",
     "infrastructure", "chemicals", "automotive"}

ClassifyReturned == classify_args # << >> /\ classify_result # << >>

\* the hint decided the call
HintDecides(call) == call.domain_hint # "" /\ _normalize_domain(call.domain_hint) # ""

\* the LLM is not asked, or its call does not end in a usable answer
LlmFails(call) == ~call.ollama_available \/ call.outcome.kind # "valid"

CombinedText(call) ==
    call.business_description \o "\n\nProducts/Services: " \o call.products

\* no keyword of any domain is in the text
NoKeywordMatches(text) ==
    \A d \in 1..Len(DOMAIN_KEYWORDS) : \A j \in 1..Len(DOMAIN_KEYWORDS[d].keywords) :
        ~Contains(Lower(text), DOMAIN_KEYWORDS[d].keywords[j])

SameAnswer(r, q) ==
    r.domain = q.domain /\ r.confidence = q.confidence /\ r.reasoning = q.reasoning

\* C16: classify returns one of the eight fixed domain keys, never None, for
\* every text and every outcome of the LLM call; when the hint does not decide
\* and the LLM is unavailable, raises, answers without JSON, with a confidence
\* that is not a number or with a domain outside the set, the result is the
\* keyword-scoring result, which is a domain key even when no keyword matches
C16_ClassifyAlwaysReturnsDomainKey ==
    ClassifyReturned =>
        /\ classify_result[1].domain \in FixedDomainKeys
        /\ (~HintDecides(classify_args[1]) /\ LlmFails(classify_args[1])) =>
              /\ LET scored == _classify_with_keywords(CombinedText(classify_args[1]))
                 IN SameAnswer(classify_result[1], scored)
              /\ "keywords" \in Range(classify_result[1].calls)

\* C16 witness: the LLM answers with a domain outside the set for a text with
\* no keyword at all, and classify has returned
C16_LlmFailsAndNoKeyword ==
    /\ ClassifyReturned
    /\ ~HintDecides(classify_args[1])
    /\ classify_args[1].ollama_available
    /\ classify_args[1].outcome.kind = "domain outside the set"
    /\ NoKeywordMatches(CombinedText(classify_args[1]))

\* C17: whenever a domain hint that _normalize_domain maps to a key is passed,
\* classify returns that key with confidence 0.95 and neither the LLM nor the
\* keyword scoring runs
C17_RecognisedHintShortCircuits ==
    (ClassifyReturned /\ HintDecides(classify_args[1])) =>
        /\ classify_result[1].domain = _normalize_domain(classify_args[1].domain_hint)
        /\ classify_result[1].domain \in FixedDomainKeys
        /\ classify_result[1].confidence = <<95, 100>>
        /\ classify_result[1].reasoning =
              "Domain specified in data pack: " \o classify_args[1].domain_hint
        /\ classify_result[1].calls = << >>

\* C17 witness: a hint known through the mappings is passed while the LLM
\* is available and would name another domain, and classify has returned
C17_HintBeatsLlm ==
    /\ ClassifyReturned
    /\ classify_args[1].domain_hint = "IT Services"
    /\ classify_args[1].ollama_available
    /\ classify_args[1].outcome.kind = "valid"
    /\ classify_result[1].domain = "technology"
    /\ _classify_with_llm(CombinedText(classify_args[1]),
                          classify_args[1].outcome.llm).domain = "chemicals"

\* C17 as stated: whenever a non-empty domain hint is passed, classify returns
\* a domain key with confidence 0.95 and neither the LLM nor the keyword
\* scoring runs
C17_HintShortCircuits ==
    (ClassifyReturned /\ classify_args[1].domain_hint # "") =>
        /\ classify_result[1].domain \in FixedDomainKeys
        /\ classify_result[1].confidence = <<95, 100>>
        /\ classify_result[1].calls = << >>

(***************************************************************************)
(* content_writer.py: ContentWriter.generate_slide_content                 *)
(***************************************************************************)

\* \w of the re module, for the characters the texts hold
IsWordChar(c) == c # "" /\ (Contains(LowerAlpha, LowerChar(c)) \/ IsDigit(c) \/ c = "_")

\* the pattern (given lowered; between \b when whole_word) matches at i
MatchAt(low, pattern, whole_word, i) ==
    /\ StartsAt(low, i, pattern)
    /\ whole_word => /\ ~IsWordChar(Char(low, i - 1))
                     /\ ~IsWordChar(Char(low, i + Len(pattern)))

\* re.sub(pattern, replacement, text, flags=re.IGNORECASE) from position i on:
\* the matches from left to right, none overlapping (low is the lowered text)
RECURSIVE SubFrom(_, _, _, _, _, _)
SubFrom(text, low, pattern, replacement, whole_word, i) ==
    LET matches == {m \in i..Len(text) : MatchAt(low, pattern, whole_word, m)}
    IN IF matches = {} THEN From(text, i)
       ELSE SubSeq(text, i, SetMin(matches) - 1) \o replacement
              \o SubFrom(text, low, pattern, replacement, whole_word,
                         SetMin(matches) + Len(pattern))

Pattern(pattern, replacement, whole_word) ==
    [pattern |-> pattern, replacement |-> replacement, whole_word |-> whole_word]

\* the `locations` dict of _anonymize, in insertion order
Locations ==
    <<Pattern("bangalore", "South India", TRUE), Pattern("bengaluru", "South India", TRUE),
      Pattern("mumbai", "West India", TRUE), Pattern("delhi", "North India", TRUE),
      Pattern("chennai", "South India", TRUE), Pattern("hyderabad", "South India", TRUE),
      Pattern("pune", "West India", TRUE), Pattern("noida", "North India", TRUE),
      Pattern("drdo", "Defence Organization", TRUE), Pattern("isro", "Space Agency", TRUE),
      Pattern("hal", "Aerospace PSU", TRUE)>>

\* the substitutions _anonymize makes, in order: the company's name, its first
\* word, then the locations
AnonymizePatterns(company_name) ==
    (IF company_name = "" THEN << >>
     ELSE <<Pattern(Lower(company_name), "The Company", FALSE),
            Pattern(Lower(Split(company_name)[1]), "The Company", FALSE)>>)
    \o Locations

RECURSIVE ApplyPatterns(_, _, _)
ApplyPatterns(text, patterns, i) ==
    IF i > Len(patterns) THEN text
    ELSE ApplyPatterns(SubFrom(text, Lower(text), patterns[i].pattern,
                               patterns[i].replacement, patterns[i].whole_word, 1),
                       patterns, i + 1)

\* _anonymize(text) of a writer whose company_name is as given
_anonymize(text, company_name) ==
    IF text = "" THEN text ELSE ApplyPatterns(text, AnonymizePatterns(company_name), 1)

\* _generate_slide_1, sections['Products & Services']: the first 8 products,
\* each through _anonymize (<< >>: no such section)
ProductsSection(record, company_name) ==
    [p \in 1..Len(Take(record.products_services, 8)) |->
        _anonymize(record.products_services[p], company_name)]

\* _generate_slide_1, sections['Industries Served']: the first 6 of the
\* stripped, non-empty pieces between commas
IndustriesSection(record) ==
    LET pieces == SplitOn(record.industries_served, ",")
        stripped == [i \in 1..Len(pieces) |-> Strip(pieces[i])]
    IN IF record.industries_served = "" THEN << >>
       ELSE Take(SelectSeq(stripped, LAMBDA piece : piece # ""), 6)

\* _generate_slide_1, sections['Certifications']
CertificationsSection(record) == Take(record.certifications, 5)

\* len(text): the rupee sign is one character
PyLen(text) == Len(text) - CountFrom(text, Rupee, 1) * (Len(Rupee) - 1)

\* text[:n]
Cut(text, n) == IF PyLen(text) <= n THEN text ELSE SubSeq(text, 1, n)

\* the revenue figures _generate_hooks computes from: at least two years, a
\* positive first value and n > 0
RevenueComputable(revenue) ==
    /\ Cardinality(Years(revenue)) >= 2
    /\ revenue[SetMin(Years(revenue))] > 0
    /\ SetMax(Years(revenue)) - SetMin(Years(revenue)) > 0

\* ((latest / first) ** (1/n) - 1) * 100 as f"{cagr:.0f}" shows it
Cagr0(start_val, end_val, n) ==
    LET g == Gcd(start_val, end_val)
        sv == start_val \div g
        ev == end_val \div g
    IN IF n = 1 THEN RoundDiv((ev - sv) * 100, sv)
       ELSE CHOOSE c \in -100..400 :
              /\ sv * Pow(200 + 2 * c - 1, n) <= ev * Pow(200, n)
              /\ ev * Pow(200, n) < sv * Pow(200 + 2 * c + 1, n)

\* _generate_hooks, context: the lines joined by "\n"
HookContext(record, web, company_name) ==
    LET revenue == record.financials.revenue
        first_yr == SetMin(Years(revenue))
        last_yr == SetMax(Years(revenue))
        products == record.products_services
        industries == record.industries_served
        market_data == web.market_data
    IN Join(<<"Company: " \o company_name>>
            \o (IF Len(products) > 0
                THEN <<"Products: " \o Join(Take(products, 5), ", ")>> ELSE << >>)
            \o (IF industries # ""
                THEN <<"Industries: "
                        \o Join([i \in 1..Len(Cut(industries, 3)) |-> Char(industries, i)], ", ")>>
                ELSE << >>)
            \o (IF market_data.nonempty /\ market_data.india_market_size # ""
                THEN <<"Market Size: " \o market_data.india_market_size>> ELSE << >>)
            \o (IF market_data.nonempty /\ market_data.cagr # ""
                THEN <<"Market Growth: " \o market_data.cagr>> ELSE << >>)
            \o (IF RevenueComputable(revenue)
                THEN <<"Revenue CAGR: "
                         \o Fmt1(Cagr10(revenue[first_yr], revenue[last_yr], last_yr - first_yr))
                         \o "%",
                       "Latest Revenue: " \o Rupee \o Fmt1(RoundDiv(revenue[last_yr], 10))
                         \o " Cr">>
                ELSE << >>),
            "\n")

\* the characters of the hook prompt around {context}
HookPromptChars == 770

\* what OllamaClient.generate returns: None, or the stripped response text
GenerateNone == [none |-> TRUE, text |-> ""]
GenerateText(text) == [none |-> FALSE, text |-> Strip(text)]

\* the code fence of a markdown reply (three backquotes), written with tildes
Fence == "~~~"

\* the reply as both parsers clean it: stripped, and of a reply that starts
\* with a code fence the piece after it (split on the fence, second piece),
\* without a leading 'json', stripped again
CleanedReply(text) ==
    LET cleaned == Strip(text)
        rest == From(cleaned, Len(Fence) + 1)
        fences == {i \in 1..Len(rest) : StartsAt(rest, i, Fence)}
        piece == IF fences = {} THEN rest ELSE SubSeq(rest, 1, SetMin(fences) - 1)
        body == IF StartsAt(piece, 1, "json") THEN From(piece, 5) ELSE piece
    IN IF StartsAt(cleaned, 1, Fence) THEN Strip(body) ELSE cleaned

\* what json.loads returns for the texts the replies hold: whether it is a
\* list, and str() of its items; any other text raises JSONDecodeError
JsonArrays ==
    <<[text |-> "[\"Only ISO 9001 certified kiln maker\", \"30% share of a 500 Cr market\", 3, \"Four\", \"Five\"]",
       is_list |-> TRUE,
       items |-> <<"Only ISO 9001 certified kiln maker", "30% share of a 500 Cr market",
                   "3", "Four", "Five">>],
      [text |-> "[\"Exclusive OEM contracts\"]",
       is_list |-> TRUE, items |-> <<"Exclusive OEM contracts">>],
      [text |-> "[]", is_list |-> TRUE, items |-> << >>],
      [text |-> "{\"highlights\": [\"Exclusive OEM contracts\"]}",
       is_list |-> FALSE, items |-> << >>]>>

JsonArrayOk(text) == \E a \in 1..Len(JsonArrays) : JsonArrays[a].text = text
JsonArray(text) == JsonArrays[CHOOSE a \in 1..Len(JsonArrays) : JsonArrays[a].text = text]

Hook(text, source) == [text |-> text, source |-> source]

\* _generate_hooks, the rule-based fallback: a revenue hook when the CAGR is
\* computable and positive, a market hook when the bundle holds a market
\* size, the generic hook when there is neither; at most four
FallbackHooks(record, web) ==
    LET revenue == record.financials.revenue
        first_yr == SetMin(Years(revenue))
        last_yr == SetMax(Years(revenue))
        market_data == web.market_data
        revenue_hook ==
            IF RevenueComputable(revenue) /\ revenue[last_yr] > revenue[first_yr]
            THEN <<Hook(IntToStr(Cagr0(revenue[first_yr], revenue[last_yr], last_yr - first_yr))
                          \o "% revenue CAGR over " \o IntToStr(last_yr - first_yr)
                          \o " years to " \o Rupee
                          \o IntToStr(RoundDiv(revenue[last_yr], 100)) \o " Cr",
                        "Verified from financials")>>
            ELSE << >>
        market_hook ==
            IF market_data.nonempty /\ market_data.india_market_size # ""
            THEN <<Hook("Operating in " \o market_data.india_market_size \o " market"
                          \o (IF market_data.cagr # ""
                              THEN " growing at " \o market_data.cagr ELSE ""),
                        "Verified from market data")>>
            ELSE << >>
        hooks == revenue_hook \o market_hook
    IN Take(IF hooks = << >>
            THEN <<Hook("Strong operational track record", "company_description")>>
            ELSE hooks, 4)

\* what a method leaves: the exception it raised ("" when it returned), what
\* it returned, and the TokenUsage entries it appended to the usage log
HooksOutcome(exc, hooks, tracked) == [exc |-> exc, hooks |-> hooks, tracked |-> tracked]

\* _generate_hooks(data) of a writer whose ollama.available and web_data are
\* as given; generated is what ollama.generate returns when called.
\* track_from_response takes len(response): of None it raises TypeError
\* before anything is tracked.
_generate_hooks(record, web, company_name, available, generated) ==
    LET context == HookContext(record, web, company_name)
        cleaned == CleanedReply(generated.text)
        insights == Take(JsonArray(cleaned).items, 4)
        llm_hooks == [i \in 1..Len(insights) |->
                        Hook(Cut(insights[i], 150),
                             "[AI Generated from company data + market analysis]")]
        tracked == <<TokenUsage("hook_generation_llm",
                                (HookPromptChars + PyLen(context)) \div 4,
                                PyLen(generated.text) \div 4)>>
    IN IF ~available THEN HooksOutcome("", FallbackHooks(record, web), << >>)
       ELSE IF generated.none THEN HooksOutcome("TypeError", << >>, << >>)
       ELSE IF JsonArrayOk(cleaned) /\ JsonArray(cleaned).is_list /\ Len(insights) > 0
       THEN HooksOutcome("", llm_hooks, tracked)
       ELSE HooksOutcome("", FallbackHooks(record, web), tracked)

\* _generate_slide_3, the filling of sparse sections: the points appended to
\* a section that is not there yet (every exception of the try is passed over)
BackfillPoints(generated) ==
    LET cleaned == CleanedReply(generated.text)
        points == Take(JsonArray(cleaned).items, 3)
    IN IF generated.none \/ ~JsonArrayOk(cleaned) \/ ~JsonArray(cleaned).is_list THEN << >>
       ELSE [i \in 1..Len(points) |-> Cut(points[i], 80)]

\* what generate_slide_content leaves: the exception raised ("" when it
\* returned), the number of slides returned, of slide 1 the three sections
\* that are never shortened, of slide 3 the hooks and the points that filled
\* its sparse sections, and the TokenUsage entries appended to the usage log
Slides(exc, slides, products_services, industries_served, certifications, hooks,
       backfill, tracked) ==
    [exc |-> exc, slides |-> slides, products_services |-> products_services,
     industries_served |-> industries_served, certifications |-> certifications,
     hooks |-> hooks, backfill |-> backfill, tracked |-> tracked]

\* generate_slide_content(data, company_name) for a record without a
\* description, indicators, SWOT or milestones: slide 1, slide 2, then slide 3
\* with its hooks and the filling of 'Key Strengths', 'Growth Opportunities'
\* and 'Market Opportunity', whose prompt takes data['industries_served'][0]
\* outside the try whenever the LLM is available
generate_slide_content(record, company_name, web, available, generated) ==
    LET hooks == _generate_hooks(record, web, company_name, available, generated)
        raised == IF hooks.exc # "" THEN hooks.exc
                  ELSE IF available /\ record.industries_served = "" THEN "IndexError"
                  ELSE ""
    IN IF raised # ""
       THEN Slides(raised, 0, << >>, << >>, << >>, << >>, << >>, hooks.tracked)
       ELSE Slides("", 3, ProductsSection(record, company_name), IndustriesSection(record),
                   CertificationsSection(record), hooks.hooks,
                   IF available THEN BackfillPoints(generated) ELSE << >>, hooks.tracked)

\* the records, bundles and LLM behaviours generate_slide_content is called with
ProductLists ==
    {<< >>,
     <<"CNC kilns", "Acme Forge dies", "Tooling for HAL, Pune">>,
     <<"Kilns", "Dies", "Jigs", "Moulds", "Gauges", "Lathes", "Presses", "Ovens", "Racks">>}

IndustryTexts == {"", "Auto, Steel , Energy", "A,B,C,D,E,F,G"}

CertificationLists == {<< >>, <<"ISO 9001", "AS9100", "CE", "BIS", "NABL", "ZED">>}

RevenueSeries ==
    {EmptySeries, (2024 :> 5000), (2022 :> 10000) @@ (2024 :> 14400),
     (2023 :> 2000) @@ (2024 :> 1500)}

WriterRecords ==
    {[to_dict(CompanyData) EXCEPT !.products_services = products,
                                  !.industries_served = industries,
                                  !.certifications = certs,
                                  !.financials.revenue = revenue] :
        products \in ProductLists, industries \in IndustryTexts,
        certs \in CertificationLists, revenue \in RevenueSeries}

WriterBundles == {NoWeb, WebManufacturing, WebGeneral}

Generated ==
    {GenerateNone,
     GenerateText("Sure! Here are three highlights for the teaser."),
     GenerateText("[\"Only ISO 9001 certified kiln maker\", \"30% share of a 500 Cr market\", 3, \"Four\", \"Five\"]\n"),
     GenerateText(Fence \o "json\n[\"Exclusive OEM contracts\"]\n" \o Fence),
     GenerateText("[]"),
     GenerateText("{\"highlights\": [\"Exclusive OEM contracts\"]}")}

WriterCalls ==
    [record : WriterRecords, company_name : {"Acme Forge"}, web : WriterBundles,
     available : BOOLEAN, generated : Generated]

\* a writer is constructed, set_web_data is called, and one call of
\* generate_slide_content is about to be made
InitWriter ==
    /\ PipelineIdle
    /\ usage_log = << >>
    /\ NoCallBut("writer")
    /\ \E call \in WriterCalls : writer_args = <<call>>
    /\ writer_result = << >>

\* the call of generate_slide_content returns or raises; what it tracked is in
\* the usage log either way
GenerateSlideContent ==
    /\ writer_args # << >>
    /\ writer_result = << >>
    /\ LET outcome == generate_slide_content(writer_args[1].record,
                          writer_args[1].company_name, writer_args[1].web,
                          writer_args[1].available, writer_args[1].generated)
       IN /\ writer_result' = <<outcome>>
          /\ usage_log' = usage_log \o outcome.tracked
    /\ UNCHANGED <<companies, skip_scraping, k, pc, results, md_content, data, extracted,
                   is_valid, issues, web_data, slide_content, slide_i, all_citations,
                   verified_slides, citations, md_lines, extracted_data, verifier_web,
                   decks, reports, token_files, classifier_vars, writer_args,
                   verify_vars, slide2_vars, item_vars, row_vars,
                   scraper_vars>>

NextWriter == GenerateSlideContent

SpecWriter == InitWriter /\ [][NextWriter]_vars

(***************************************************************************)
(* Properties of generate_slide_content                                    *)
(***************************************************************************)

WriterReturned == writer_args # << >> /\ writer_result # << >>

\* generate was called and gave None, or a text that json.loads rejects
GenerateFailsOrUnparseable(call) ==
    /\ call.available
    /\ \/ call.generated.none
       \/ ~JsonArrayOk(CleanedReply(call.generated.text))

\* C13: when the LLM is available but generate returns None or a text that is
\* not parseable JSON, generate_slide_content raises nothing and returns all
\* three slides, with the hooks of the rule-based fallback
C13_GenerateFailureFallsBack ==
    (WriterReturned /\ GenerateFailsOrUnparseable(writer_args[1])) =>
        /\ writer_result[1].exc = ""
        /\ writer_result[1].slides = 3
        /\ writer_result[1].hooks =
              FallbackHooks(writer_args[1].record, writer_args[1].web)

\* the stripped, non-empty pieces of industries_served between commas
SourceIndustries(record) ==
    LET pieces == SplitOn(record.industries_served, ",")
        stripped == [i \in 1..Len(pieces) |-> Strip(pieces[i])]
    IN SelectSeq(stripped, LAMBDA piece : piece # "")

\* C14: every item of the sections Products & Services, Industries Served and
\* Certifications equals, character for character and in source order, the
\* source item of the extracted record; only the number of items is capped,
\* at 8, 6 and 5
C14_NeverShortenedSectionsAreVerbatim ==
    (WriterReturned /\ writer_result[1].exc = "") =>
        /\ writer_result[1].products_services =
              Take(writer_args[1].record.products_services, 8)
        /\ writer_result[1].industries_served =
              Take(SourceIndustries(writer_args[1].record), 6)
        /\ writer_result[1].certifications =
              Take(writer_args[1].record.certifications, 5)

GenericHook == "Strong operational track record"

HasRevenueSeries(record) == Years(record.financials.revenue) # {}

HasMarketSize(web) == web.market_data.nonempty /\ web.market_data.india_market_size # ""

\* the hook is made from the revenue series or from the market-size fact
DerivedFromData(hook) ==
    hook.source \in {"Verified from financials", "Verified from market data"}

\* C18: with text generation unavailable, _generate_hooks returns one to four
\* hooks, none empty; when the record holds a revenue series or the bundle a
\* market-size fact, one of them is derived from that data, and the generic
\* string is returned only when neither exists
C18_FallbackHooksUseTheData ==
    (WriterReturned /\ ~writer_args[1].available) =>
        LET hooks == writer_result[1].hooks
            with_data == \/ HasRevenueSeries(writer_args[1].record)
                         \/ HasMarketSize(writer_args[1].web)
        IN /\ writer_result[1].exc = ""
           /\ Len(hooks) \in 1..4
           /\ \A h \in 1..Len(hooks) : hooks[h].text # ""
           /\ with_data => \E h \in 1..Len(hooks) : DerivedFromData(hooks[h])
           /\ (\E h \in 1..Len(hooks) : hooks[h].text = GenericHook) => ~with_data

(***************************************************************************)
(* citation_verifier.py: _verify_claim on a verifier of its own            *)
(***************************************************************************)

\* a document without an empty line: a line found again inside a longer one,
\* the same line twice, and lines with margin and market wording
DocPipes ==
    "Acme makes steel pipes for oil and gas rigs\nAcme makes steel pipes\nAcme makes steel pipes\nExports to nine countries\nOperating margin improved\nMarket size of valves is large"

\* a document with an empty line
DocSpaced == "Acme makes steel pipes\n\nExports to nine countries"

VerifyDocs == {DocPipes, DocSpaced}

\* a record whose string fields are all filled, without financial series
RecordFilled ==
    to_dict([CompanyData EXCEPT
               !.name = "Acme Forge",
               !.business_description = "Maker of tubes",
               !.website = "https://acme.in",
               !.domain = "Manufacturing",
               !.segment = "Tubes",
               !.industries_served = "Refineries",
               !.headquarters = "Pune",
               !.founded = "1987",
               !.employees = "250",
               !.shareholders = <<[name |-> "Promoters", value |-> 6000,
                                   type |-> "Promoter"]>>,
               !.swot.strengths = <<"Strong dealer network in Pune">>])

\* the same record with a revenue and an EBITDA series
RecordWithSeries ==
    [RecordFilled EXCEPT !.financials.revenue = (2022 :> 10000) @@ (2024 :> 21000),
                         !.financials.ebitda = (2024 :> 4000)]

VerifyRecords == {to_dict(CompanyData), RecordFilled, RecordWithSeries}

\* a bundle whose market data holds no fact and no source, with three pages
WebPagesOnly ==
    [market_data |-> [NoMarketData EXCEPT !.nonempty = TRUE],
     company_info |-> <<[page_type |-> "about", url |-> "https://acme.in/about",
                         content |-> "Founded in Pune"],
                        [page_type |-> "products", url |-> "https://acme.in/products",
                         content |-> "Steel pipes FOR refineries"],
                        [page_type |-> "contact", url |-> "https://acme.in/contact",
                         content |-> "Write for a quote"]>>]

\* a bundle whose sources are dicts, one of them without a name, and a plain
\* string
WebDictSources ==
    [market_data |->
        [nonempty |-> TRUE, india_market_size |-> "$15 billion (2024)", cagr |-> "",
         key_drivers |-> <<"PLI scheme", "Make in India">>,
         sources |-> <<[kind |-> "dict", source_name |-> "IBEF",
                        source_url |-> "https://www.ibef.org", has_name |-> TRUE,
                        has_url |-> TRUE],
                       [kind |-> "str", source_name |-> "", source_url |-> "",
                        has_name |-> FALSE, has_url |-> FALSE],
                       [kind |-> "dict", source_name |-> "",
                        source_url |-> "https://example.org/report", has_name |-> FALSE,
                        has_url |-> TRUE]>>],
     company_info |-> << >>]

VerifyBundles == {NoWeb, WebManufacturing, WebPagesOnly, WebDictSources}

ClaimTexts ==
    {"Acme makes steel pipes", "Exports to twelve big cities", "Exports to nine cities",
     "steel pipes", "gas", "Offices in Pune and Delhi", "dealer network in Pune", "ab",
     "Operating margin improved", "EBITDA Margin: 19.0%",
     "Market size of valves is large", "Market Size: $15 billion (2024)",
     "Industry Growth: 7-9%", "Positioned for exports",
     "Industry size remains steel", "Industry size remains unknown"}

VerifyCalls ==
    [md_content : VerifyDocs, extracted : VerifyRecords, web : VerifyBundles,
     claim : ClaimTexts]

\* a verifier is constructed; set_sources and then _verify_claim are about to
\* be called on it
InitVerifier ==
    /\ PipelineIdle
    /\ usage_log = << >>
    /\ NoCallBut("verifier")
    /\ \E call \in VerifyCalls : verify_args = <<call>>
    /\ verify_result = << >>

\* set_sources(md_file, extracted, md_content, web) and then
\* _verify_claim(1, claim, '') returns or raises
VerifyClaim ==
    /\ verify_args # << >>
    /\ verify_result = << >>
    /\ extracted_data' = verify_args[1].extracted
    /\ verifier_web' = verify_args[1].web
    /\ md_lines' = SplitOn(verify_args[1].md_content, "\n")
    /\ verify_result' =
          <<_verify_claim(1, verify_args[1].claim, md_lines', extracted_data',
                          verifier_web')>>
    /\ UNCHANGED <<companies, skip_scraping, k, pc, results, md_content, data, extracted,
                   is_valid, issues, web_data, slide_content, slide_i, all_citations,
                   verified_slides, citations, decks, reports, usage_log, token_files,
                   classifier_vars, writer_vars, verify_args, slide2_vars, item_vars,
                   row_vars,
                   scraper_vars>>

NextVerifier == VerifyClaim

SpecVerifier == InitVerifier /\ [][NextVerifier]_vars

(***************************************************************************)
(* Properties of _verify_claim                                             *)
(***************************************************************************)

VerifierReturned ==
    verify_args # << >> /\ verify_result # << >> /\ verify_result[1].exc = ""

ClaimText == verify_args[1].claim
VerifyCitation == verify_result[1].citation

\* the claim goes to _verify_onepager
OnDocumentPath ==
    /\ VerifierReturned
    /\ Len(Strip(ClaimText)) >= 3
    /\ ~_is_calculated_claim(ClaimText)
    /\ ~_is_web_claim(ClaimText)

\* the Citation refers to a line of the document
CitedByLine == VerifyCitation.verified /\ VerifyCitation.line_number # 0

\* scores as fractions
Fraction(num, den) == [num |-> num, den |-> den]
Exceeds(a, b) == a.num * b.den > b.num * a.den
Larger(a, b) == IF Exceeds(b, a) THEN b ELSE a
Threshold == Fraction(3, 10)
Half == Fraction(1, 2)

\* len(clean_claim) / max(len(clean_line), 1) when one contains the other
ContainmentScore(claim, line) ==
    LET clean_claim == _clean_for_matching(claim)
        clean_line == _clean_for_matching(line)
    IN IF Contains(clean_line, clean_claim) \/ Contains(clean_claim, clean_line)
       THEN Fraction(Len(clean_claim), IF Len(clean_line) > 1 THEN Len(clean_line) ELSE 1)
       ELSE Fraction(0, 1)

\* the share of the claim's words found among the line's words, for claims of
\* more than two words
OverlapScore(claim, line) ==
    LET claim_words == Range(Split(_clean_for_matching(claim)))
        line_words == Range(Split(_clean_for_matching(line)))
    IN IF Cardinality(claim_words) > 2
       THEN Fraction(Cardinality(claim_words \cap line_words), Cardinality(claim_words))
       ELSE Fraction(0, 1)

\* the overlap score counts only above one half
QualifyingOverlap(claim, line) ==
    IF Exceeds(OverlapScore(claim, line), Half) THEN OverlapScore(claim, line)
    ELSE Fraction(0, 1)

LineScore(claim, line) ==
    Larger(ContainmentScore(claim, line), QualifyingOverlap(claim, line))

\* C21: on the document path a claim is verified against a document line
\* whenever some line's containment score, or its word-overlap score, is
\* strictly greater than 0.3, and is not verified through a line when every
\* line scores 0.3 or less on both checks.
C21_LineCitedIffSomeScoreAboveThreshold ==
    OnDocumentPath =>
        (CitedByLine <=>
            \E n \in 1..Len(md_lines) :
                \/ Exceeds(ContainmentScore(ClaimText, md_lines[n]), Threshold)
                \/ Exceeds(OverlapScore(ClaimText, md_lines[n]), Threshold))

\* the line the Citation refers to
CitedLine == VerifyCitation.line_number

\* C22: on the document path the cited line is a line with the maximum score,
\* a line's score being the larger of its containment score and its qualifying
\* overlap score; of several lines reaching the maximum the one with the lowest
\* line number is cited, and the cited line number is the 1-based index of
\* that line.
C22_CitedLineIsFirstOfMaximumScore ==
    (OnDocumentPath /\ CitedByLine) =>
        /\ CitedLine \in 1..Len(md_lines)
        /\ VerifyCitation.line_content = Strip(md_lines[CitedLine])
        /\ VerifyCitation.source_reference =
              "Line " \o IntToStr(CitedLine) \o ": " \o Strip(md_lines[CitedLine])
        /\ \A m \in 1..Len(md_lines) :
              ~Exceeds(LineScore(ClaimText, md_lines[m]),
                       LineScore(ClaimText, md_lines[CitedLine]))
        /\ \A m \in 1..(CitedLine - 1) :
              Exceeds(LineScore(ClaimText, md_lines[CitedLine]),
                      LineScore(ClaimText, md_lines[m]))

\* a line is cited while a later line has the same score, and an earlier one
\* a lower score above zero
C22_EarlierOfTwoEqualLinesCited ==
    /\ OnDocumentPath
    /\ CitedByLine
    /\ \E m \in (CitedLine + 1)..Len(md_lines) :
          /\ ~Exceeds(LineScore(ClaimText, md_lines[CitedLine]),
                      LineScore(ClaimText, md_lines[m]))
    /\ \E m \in 1..(CitedLine - 1) :
          Exceeds(LineScore(ClaimText, md_lines[m]), Fraction(0, 1))

\* some line scores above the acceptance threshold
SomeLineClears ==
    \E n \in 1..Len(md_lines) : Exceeds(LineScore(ClaimText, md_lines[n]), Threshold)

\* the leaves of the flattened record that are strings and contain, or are
\* contained in, the cleaned claim
LeafMatches(leaf) ==
    /\ leaf.is_str
    /\ \/ Contains(_clean_for_matching(leaf.value), _clean_for_matching(ClaimText))
       \/ Contains(_clean_for_matching(ClaimText), _clean_for_matching(leaf.value))

MatchingLeaves ==
    LET leaves == _flatten_dict(extracted_data)
    IN {i \in 1..Len(leaves) : LeafMatches(leaves[i])}

FirstMatchingPath == _flatten_dict(extracted_data)[SetMin(MatchingLeaves)].name

MarkedNoMatchingSource ==
    /\ ~VerifyCitation.verified
    /\ VerifyCitation.source_type = "unverified"
    /\ VerifyCitation.source_reference = "No matching source found in one-pager"

\* C23: on the document path a claim is marked unverified ('No matching source
\* found ...') exactly when no document line clears the threshold and no
\* string-valued leaf of the flattened record contains, or is contained in, the
\* cleaned claim; when only a field matches, the Citation references the key
\* path of the first matching leaf in depth-first insertion order.
C23_UnverifiedIffNoLineAndNoField ==
    OnDocumentPath =>
        /\ MarkedNoMatchingSource <=> (~SomeLineClears /\ MatchingLeaves = {})
        /\ VerifyCitation.verified <=> (SomeLineClears \/ MatchingLeaves # {})
        /\ (~SomeLineClears /\ MatchingLeaves # {}) =>
              /\ VerifyCitation.source_type = "onepager"
              /\ VerifyCitation.source_reference = "Field: " \o FirstMatchingPath
              /\ VerifyCitation.line_number = 0

\* a claim without a line, matched by two leaves of which the first, the
\* headquarters, is inside the claim and the second, a SWOT strength, holds it
C23_FirstOfTwoFieldsCited ==
    /\ OnDocumentPath
    /\ ~SomeLineClears
    /\ Cardinality(MatchingLeaves) = 2
    /\ VerifyCitation.source_reference = "Field: headquarters"
    /\ \E i \in MatchingLeaves : _flatten_dict(extracted_data)[i].name = "swot.strengths[0]"

\* a claim without a line and without a field
C23_NothingMatches ==
    /\ OnDocumentPath
    /\ MarkedNoMatchingSource
    /\ ClaimText = "gas"

\* the claim is, character for character, a line of the document
ClaimIsDocumentLine ==
    \E n \in 1..Len(md_lines) : md_lines[n] = ClaimText

\* C29: for every claim of at least 3 characters whose text is exactly a line
\* of the source document, _verify_claim returns verified=True, whatever words
\* the line contains and whatever the financial series and the bundle hold.
C29_DocumentLineIsVerified ==
    (/\ verify_args # << >>
     /\ verify_result # << >>
     /\ Len(Strip(ClaimText)) >= 3
     /\ ClaimIsDocumentLine) =>
        /\ verify_result[1].exc = ""
        /\ VerifyCitation.verified

\* a claim that is a line of the document and has none of the calculated or
\* market wordings is verified through that line
C29_PlainDocumentLineIsVerified ==
    (OnDocumentPath /\ ClaimIsDocumentLine) => CitedByLine

\* the claim goes to _verify_web_data
OnEnrichmentPath ==
    /\ VerifierReturned
    /\ Len(Strip(ClaimText)) >= 3
    /\ ~_is_calculated_claim(ClaimText)
    /\ _is_web_claim(ClaimText)

\* the Citation was built from a fact of the bundle, not from a page
MarketSizeCited ==
    /\ VerifyCitation.verified
    /\ StartsAt(VerifyCitation.source_reference, 1, "Data: India market size = ")
GrowthCited ==
    /\ VerifyCitation.verified
    /\ StartsAt(VerifyCitation.source_reference, 1, "Data: Industry CAGR = ")
DriversCited ==
    /\ VerifyCitation.verified
    /\ StartsAt(VerifyCitation.source_reference, 1, "Industry drivers: ")
BundleCited == MarketSizeCited \/ GrowthCited \/ DriversCited

\* the sources of the bundle that carry a name and a URL of their own or by
\* default (objects and dicts), as '[name](url)', in bundle order
RECURSIVE NamedSources(_)
NamedSources(sources) ==
    IF Len(sources) = 0 THEN << >>
    ELSE LET src == Head(sources)
             shown == IF src.kind = "object"
                        THEN <<"[" \o src.source_name \o "](" \o src.source_url \o ")">>
                      ELSE IF src.kind = "dict"
                        THEN <<"[" \o (IF src.has_name THEN src.source_name ELSE "Source")
                                 \o "](" \o (IF src.has_url THEN src.source_url ELSE "#")
                                 \o ")">>
                      ELSE << >>
         IN shown \o NamedSources(Tail(sources))

\* what follows the fact in the reference
RECURSIVE SourceLines(_)
SourceLines(named) ==
    IF Len(named) = 0 THEN "" ELSE "\n" \o Head(named) \o SourceLines(Tail(named))

SourcesPart ==
    LET named == NamedSources(verifier_web.market_data.sources)
    IN "\nSources:" \o (IF Len(named) = 0 THEN "\nIndustry estimates" ELSE SourceLines(named))

\* C24: a claim on the enrichment path gets a bundle-level 'web' Citation only
\* when the bundle holds the corresponding fact: market-size wording requires a
\* non-empty market-size string, growth wording a non-empty growth string,
\* positioning wording a non-empty drivers list.  Its reference then gives the
\* fact followed by every named source of the bundle, in bundle order.
C24_BundleCitationNeedsItsFact ==
    (OnEnrichmentPath /\ BundleCited) =>
        LET market_data == verifier_web.market_data
        IN /\ VerifyCitation.source_type = "web"
           /\ MarketSizeCited =>
                 /\ market_data.india_market_size # ""
                 /\ \/ Contains(ClaimText, "Market Size")
                    \/ Contains(ClaimText, "Industry Size")
                    \/ Contains(ClaimText, "$")
                 /\ VerifyCitation.source_reference =
                       "Data: India market size = " \o market_data.india_market_size
                          \o SourcesPart
           /\ GrowthCited =>
                 /\ market_data.cagr # ""
                 /\ Contains(ClaimText, "Growth")
                 /\ VerifyCitation.source_reference =
                       "Data: Industry CAGR = " \o market_data.cagr \o SourcesPart
           /\ DriversCited =>
                 /\ Len(market_data.key_drivers) > 0
                 /\ \/ Contains(ClaimText, "Positioned for")
                    \/ Contains(Lower(ClaimText), "driven by")
                 /\ VerifyCitation.source_reference =
                       "Industry drivers: " \o Join(market_data.key_drivers, ", ")
                          \o SourcesPart

\* a market-size claim cited from a bundle with three sources of which one, a
\* plain string, has no name to show and one, a dict, gets the default name
C24_MarketSizeWithNamedSources ==
    /\ OnEnrichmentPath
    /\ MarketSizeCited
    /\ Len(verifier_web.market_data.sources) = 3
    /\ VerifyCitation.source_reference =
          "Data: India market size = $15 billion (2024)\nSources:\n[IBEF](https://www.ibef.org)\n[Source](https://example.org/report)"

\* a fact of the bundle answers the wording of the claim (lines 240-286)
BundleFactMatches ==
    LET market_data == verifier_web.market_data
    IN /\ market_data.nonempty
       /\ \/ /\ \/ Contains(ClaimText, "Market Size")
                \/ Contains(ClaimText, "Industry Size")
                \/ Contains(ClaimText, "$")
             /\ market_data.india_market_size # ""
          \/ /\ Contains(ClaimText, "Growth") \/ Contains(Upper(ClaimText), "CAGR")
             /\ market_data.cagr # ""
          \/ /\ \/ Contains(ClaimText, "Positioned for")
                \/ Contains(Lower(ClaimText), "driven by")
             /\ Len(market_data.key_drivers) > 0

\* the text of the page contains, case-insensitively, one of the first three
\* words of the claim
HoldsOneOfFirstThreeWords(page) ==
    LET words == Split(Lower(ClaimText))
    IN \E i \in 1..Len(words) : i <= 3 /\ Contains(Lower(page.content), words[i])

PagesWithAWord ==
    {i \in 1..Len(verifier_web.company_info) :
        HoldsOneOfFirstThreeWords(verifier_web.company_info[i])}

\* C25: when no bundle-level fact matches, a claim on the enrichment path is
\* verified exactly when some scraped page's text contains, case-insensitively,
\* at least one of the claim's first three words; the Citation cites the URL
\* and category of the first such page in mapping order, and otherwise the claim
\* is unverified with reason 'Web data not found'.
C25_PageCitedIffItHoldsOneOfFirstThreeWords ==
    (OnEnrichmentPath /\ ~BundleFactMatches) =>
        /\ VerifyCitation.verified <=> PagesWithAWord # {}
        /\ PagesWithAWord # {} =>
              LET page == verifier_web.company_info[SetMin(PagesWithAWord)]
              IN /\ VerifyCitation.source_type = "web"
                 /\ VerifyCitation.source_reference =
                       "Source: Company Website - " \o page.page_type
                          \o "\nURL: " \o page.url
        /\ PagesWithAWord = {} =>
              /\ VerifyCitation.source_type = "unverified"
              /\ VerifyCitation.source_reference = "Web data not found"

\* two of three pages hold 'for', in capitals on the first of them, which is
\* the second page of the mapping and the one cited
C25_SecondPageCited ==
    /\ OnEnrichmentPath
    /\ ~BundleFactMatches
    /\ PagesWithAWord = {2, 3}
    /\ VerifyCitation.verified
    /\ VerifyCitation.source_reference =
          "Source: Company Website - products\nURL: https://acme.in/products"

\* only the fourth word of the claim is on a page
C25_FourthWordDoesNotCount ==
    /\ OnEnrichmentPath
    /\ ClaimText = "Industry size remains steel"
    /\ Len(verifier_web.company_info) = 3
    /\ VerifyCitation.source_reference = "Web data not found"

(***************************************************************************)
(* content_writer.py: _generate_slide_2, and the verification of its slide *)
(***************************************************************************)

\* seq[-n:]
LastOf(seq, n) == SubSeq(seq, IF Len(seq) > n THEN Len(seq) - n + 1 ELSE 1, Len(seq))

\* f"{v:.1f}" of a value held in hundredths that is a whole number of tenths
Tenths(v) == Fmt1(v \div 10)

\* f"FY{str(yr)[-2:]}: ₹{series[yr]:.1f} Cr" for the last five years
TrendItems(series) ==
    LET years == LastOf(SortedYears(Years(series)), 5)
    IN [i \in 1..Len(years) |->
          "FY" \o LastOf(IntToStr(years[i]), 2) \o ": " \o Rupee
             \o Tenths(series[years[i]]) \o " Cr"]

\* lines 219-232: the CAGR KPI
CagrKpi(financials) ==
    LET revenue == financials.revenue
        first_yr == SetMin(Years(revenue))
        last_yr == SetMax(Years(revenue))
    IN IF /\ Cardinality(Years(revenue)) >= 2
          /\ revenue[first_yr] > 0
          /\ last_yr - first_yr > 0
       THEN <<"Revenue CAGR: "
                \o Fmt1(Cagr10(revenue[first_yr], revenue[last_yr], last_yr - first_yr))
                \o "%">>
       ELSE << >>

\* the margin KPI taken at the earliest common year instead of the latest
MarginKpiOfEarliestYear(financials) ==
    LET ebitda == financials.ebitda
        revenue == financials.revenue
        common == Years(ebitda) \cap Years(revenue)
        yr == SetMin(common)
    IN IF common # {} /\ revenue[yr] > 0
       THEN <<"EBITDA Margin: " \o Fmt1(Margin10(ebitda[yr], revenue[yr])) \o "%">>
       ELSE << >>

\* lines 234-248: the margin KPI
MarginKpi(financials) ==
    LET ebitda == financials.ebitda
        revenue == financials.revenue
        common == Years(ebitda) \cap Years(revenue)
        yr == SetMax(common)
    IN IF common # {} /\ revenue[yr] > 0
       THEN <<"EBITDA Margin: " \o Fmt1(Margin10(ebitda[yr], revenue[yr])) \o "%">>
       ELSE << >>

\* lines 250-272: RoCE and ROE of the latest year
RatioKpi(label, series) ==
    IF Years(series) = {} THEN << >>
    ELSE <<label \o ": " \o Tenths(series[SetMax(Years(series))]) \o "%">>

FinancialKpis(financials) ==
    CagrKpi(financials) \o MarginKpi(financials) \o RatioKpi("RoCE", financials.roce)
      \o RatioKpi("ROE", financials.roe)

\* lines 277-294: the first five shareholders that have a name and a value
ShareholderItems(record) ==
    LET first_five == Take(record.shareholders, 5)
        shown == SelectSeq(first_five, LAMBDA sh : sh.name # "" /\ sh.value # 0)
    IN [i \in 1..Len(shown) |-> shown[i].name \o ": " \o Tenths(shown[i].value) \o "%"]

\* lines 296-317: the market position from the bundle
MarketPositionItems(web) ==
    LET market_data == web.market_data
    IN IF ~market_data.nonempty THEN << >>
       ELSE (IF market_data.india_market_size # ""
             THEN <<"Industry Size: " \o market_data.india_market_size>> ELSE << >>)
            \o (IF market_data.cagr # ""
                THEN <<"Industry Growth: " \o market_data.cagr>> ELSE << >>)

\* a section is stored only when it has items
SectionIfAny(name, items) == IF Len(items) = 0 THEN << >> ELSE <<Section(name, items)>>

_generate_slide_2(record, web) ==
    SlideContent("Financial & Operational Performance",
        SectionIfAny("Revenue Trend", TrendItems(record.financials.revenue))
          \o SectionIfAny("EBITDA", TrendItems(record.financials.ebitda))
          \o SectionIfAny("Financial KPIs", FinancialKpis(record.financials))
          \o SectionIfAny("Key Shareholders", ShareholderItems(record))
          \o SectionIfAny("Market Position", MarketPositionItems(web)),
        "revenue, ebitda", NoHooks)

\* the series the slide is composed from, in whole tenths
Slide2Revenue ==
    {EmptySeries, (2024 :> 5000), (2022 :> 10000) @@ (2024 :> 21000),
     (2023 :> 20000) @@ (2024 :> 15000), (2023 :> 0) @@ (2024 :> 10000)}

Slide2Ebitda ==
    {EmptySeries, (2024 :> 4000), (2021 :> 500), (2023 :> 3000) @@ (2024 :> 1500),
     (2023 :> 300)}

Slide2Roce == {EmptySeries, (2023 :> 1200) @@ (2024 :> 1850)}

Slide2Records ==
    {[base EXCEPT !.financials.revenue = revenue, !.financials.ebitda = ebitda,
                  !.financials.roce = roce] :
       base \in {to_dict(CompanyData), RecordFilled}, revenue \in Slide2Revenue,
       ebitda \in Slide2Ebitda, roce \in Slide2Roce}

Slide2Calls == [record : Slide2Records, web : {NoWeb, WebManufacturing}]

\* a writer and a verifier are constructed and given the same record and
\* bundle, as process() does
InitSlide2 ==
    /\ PipelineIdle
    /\ usage_log = << >>
    /\ NoCallBut("slide 2")
    /\ \E call \in Slide2Calls : slide2_args = <<call>>
    /\ slide2 = << >>
    /\ slide2_verified = << >>

\* set_web_data(web) and _generate_slide_2(record) return
GenerateSlide2 ==
    /\ slide2_args # << >>
    /\ slide2 = << >>
    /\ slide2' = <<_generate_slide_2(slide2_args[1].record, slide2_args[1].web)>>
    /\ UNCHANGED <<pipeline_vars, classifier_vars, writer_vars, verify_vars, slide2_args,
                   slide2_verified, item_vars, row_vars,
                   scraper_vars>>

\* set_sources(md_file, record, md_content, web) and then
\* verify_slide_content(2, slide) return or raise
VerifySlide2 ==
    /\ slide2 # << >>
    /\ slide2_verified = << >>
    /\ extracted_data' = slide2_args[1].record
    /\ verifier_web' = slide2_args[1].web
    /\ md_lines' = SplitOn(DocAcme, "\n")
    /\ LET r == verify_slide_content(2, slide2[1], md_lines', extracted_data', verifier_web')
       IN /\ citations' = citations \o r.slide_citations
          /\ slide2_verified' = <<r>>
    /\ UNCHANGED <<companies, skip_scraping, k, pc, results, md_content, data, extracted,
                   is_valid, issues, web_data, slide_content, slide_i, all_citations,
                   verified_slides, decks, reports, usage_log, token_files,
                   classifier_vars, writer_vars, verify_vars, slide2_args, slide2,
                   item_vars, row_vars,
                   scraper_vars>>

NextSlide2 == GenerateSlide2 \/ VerifySlide2

SpecSlide2 == InitSlide2 /\ [][NextSlide2]_vars

(***************************************************************************)
(* Properties of the KPIs of slide 2                                       *)
(***************************************************************************)

Slide2Verified == slide2_args # << >> /\ slide2 # << >> /\ slide2_verified # << >>

\* the items of slide 2 that start with a label
ItemsLabelled(label) ==
    LET items == SlideClaims(slide2[1])
    IN {i \in 1..Len(items) : StartsAt(items[i], 1, label)}

\* what the item shows between the label and the final '%'
FigureOf(item, label) == SubSeq(item, Len(label) + 1, Len(item) - 1)

\* the last line of a reference
RECURSIVE LastLine(_)
LastLine(text) ==
    IF Contains(text, "\n") THEN LastLine(Tail(text)) ELSE text

\* the verifier's conditions for computing the two figures from its record
\* (citation_verifier.py, lines 148-153 and 172-177)
VerifierComputesCagr ==
    LET revenue == extracted_data.financials.revenue
    IN /\ Cardinality(DOMAIN revenue) >= 2
       /\ revenue[SetMin(DOMAIN revenue)] > 0
       /\ SetMax(DOMAIN revenue) - SetMin(DOMAIN revenue) > 0

VerifierComputesMargin ==
    LET revenue == extracted_data.financials.revenue
        ebitda == extracted_data.financials.ebitda
    IN /\ DOMAIN ebitda \cap DOMAIN revenue # {}
       /\ revenue[SetMax(DOMAIN ebitda \cap DOMAIN revenue)] > 0

\* the Citation of the i-th item of the slide
Slide2Citation(i) == slide2_verified[1].slide_citations[i]

\* C26: the composer emits the 'Revenue CAGR: x%' KPI exactly when the verifier
\* can compute the CAGR and the 'EBITDA Margin: y%' KPI exactly when the
\* verifier can compute the margin; the verifier then verifies that KPI as
\* 'calculated' with a result line showing the same one-decimal figure, from the
\* same years; when the figure is not computable there is no KPI and no
\* 'calculated' Citation.
C26_KpisAreWhatTheVerifierComputes ==
    Slide2Verified =>
        LET revenue == extracted_data.financials.revenue
            cagr_items == ItemsLabelled("Revenue CAGR: ")
            margin_items == ItemsLabelled("EBITDA Margin: ")
            cits == slide2_verified[1].slide_citations
        IN /\ slide2_verified[1].exc = ""
           /\ Len(cits) = Len(SlideClaims(slide2[1]))
           /\ Cardinality(cagr_items) = (IF VerifierComputesCagr THEN 1 ELSE 0)
           /\ Cardinality(margin_items) = (IF VerifierComputesMargin THEN 1 ELSE 0)
           /\ \A i \in cagr_items :
                 /\ cits[i].verified
                 /\ cits[i].source_type = "calculated"
                 /\ cits[i].claim = SlideClaims(slide2[1])[i]
                 /\ LastLine(cits[i].source_reference) =
                       "= " \o FigureOf(cits[i].claim, "Revenue CAGR: ") \o "%"
                 /\ Contains(cits[i].source_reference,
                       "FY" \o IntToStr(SetMax(DOMAIN revenue)) \o "_Revenue / FY"
                          \o IntToStr(SetMin(DOMAIN revenue)) \o "_Revenue")
           /\ \A i \in margin_items :
                 /\ cits[i].verified
                 /\ cits[i].source_type = "calculated"
                 /\ cits[i].claim = SlideClaims(slide2[1])[i]
                 /\ LastLine(cits[i].source_reference) =
                       "= " \o FigureOf(cits[i].claim, "EBITDA Margin: ") \o "%"
           /\ \A i \in 1..Len(cits) :
                 cits[i].source_type = "calculated" => i \in cagr_items \cup margin_items

\* both KPIs are emitted and verified, the margin from the later of two common
\* years whose margins differ, the CAGR of a shrinking revenue
C26_BothKpisVerified ==
    /\ Slide2Verified
    /\ \E i \in ItemsLabelled("Revenue CAGR: ") :
          /\ SlideClaims(slide2[1])[i] = "Revenue CAGR: -25.0%"
          /\ Slide2Citation(i).source_type = "calculated"
    /\ \E i \in ItemsLabelled("EBITDA Margin: ") :
          /\ SlideClaims(slide2[1])[i] = "EBITDA Margin: 10.0%"
          /\ Slide2Citation(i).source_type = "calculated"

\* series are there but neither figure is computable: no KPI of the two
C26_NeitherKpi ==
    /\ Slide2Verified
    /\ DOMAIN extracted_data.financials.revenue = {2023, 2024}
    /\ DOMAIN extracted_data.financials.ebitda = {2023}
    /\ ItemsLabelled("Revenue CAGR: ") = {}
    /\ ItemsLabelled("EBITDA Margin: ") = {}

(***************************************************************************)
(* content_writer.py: _shorten_text and the items that are shortened       *)
(***************************************************************************)

\* str.strip(c) and str.rstrip(c) for one character c
RECURSIVE LStripChar(_, _)
LStripChar(s, c) == IF s # "" /\ Head(s) = c THEN LStripChar(Tail(s), c) ELSE s

RECURSIVE RStripChar(_, _)
RStripChar(s, c) ==
    IF s # "" /\ Char(s, Len(s)) = c THEN RStripChar(SubSeq(s, 1, Len(s) - 1), c) ELSE s

StripChar(s, c) == RStripChar(LStripChar(s, c), c)

\* str.endswith
EndsWith(s, suffix) ==
    Len(s) >= Len(suffix) /\ SubSeq(s, Len(s) - Len(suffix) + 1, Len(s)) = suffix

\* lines 621-627: words are appended while the result, the word and one more
\* character stay within max_chars
RECURSIVE TruncateAtWord(_, _, _)
TruncateAtWord(result, words, max_chars) ==
    IF Len(words) = 0 THEN result
    ELSE IF PyLen(result) + PyLen(Head(words)) + 1 > max_chars THEN result
    ELSE TruncateAtWord(IF result # "" THEN result \o " " \o Head(words) ELSE Head(words),
                        Tail(words), max_chars)

\* lines 613-617: the reply without quotes and trailing dots
ShortenedReply(text) ==
    LET shortened == RStripChar(StripChar(StripChar(Strip(text), "\""), "'"), ".")
    IN IF EndsWith(shortened, "..") THEN SubSeq(shortened, 1, Len(shortened) - 2)
       ELSE shortened

\* the characters of the shortening prompt around {max_chars} and {text}
ShortenPromptChars == 149

\* an item with the TokenUsage entries its composing appended to the usage log
Item(text, tracked) == [text |-> text, tracked |-> tracked]

\* the fallback alone, for a text longer than max_chars
_shorten_text_at_words(text, max_chars) ==
    Strip(TruncateAtWord("", Split(text), max_chars))

\* _shorten_text(text, max_chars, context) of a writer whose ollama.available
\* is as given; generated is what ollama.generate returns when called
_shorten_text(text, max_chars, context, available, generated) ==
    LET tracked == <<TokenUsage("text_shortening:" \o context,
                                (ShortenPromptChars + Len(IntToStr(max_chars)) + PyLen(text))
                                   \div 4,
                                PyLen(generated.text) \div 4)>>
        shortened == ShortenedReply(generated.text)
    IN IF text = "" \/ PyLen(text) <= max_chars THEN Item(text, << >>)
       ELSE IF ~available THEN Item(_shorten_text_at_words(text, max_chars), << >>)
       ELSE IF ~generated.none /\ generated.text # "" /\ PyLen(shortened) <= max_chars
       THEN Item(shortened, tracked)
       ELSE Item(_shorten_text_at_words(text, max_chars), tracked)

\* the sections whose items may be shortened, with their caps
ItemCap(section) ==
    CASE section = "Company Overview" -> 200
      [] section = "Key Highlights" -> 70
      [] section = "Key Strengths" -> 120
      [] section = "Growth Opportunities" -> 120
      [] section = "Recent Milestones" -> 70
      [] section = "Market Opportunity" -> 120

\* the text an item is made from: the source text through _anonymize (a
\* milestone after its date, the market summary as it is)
ItemSource(section, text, company_name) ==
    CASE section = "Recent Milestones" -> "2021: " \o _anonymize(text, company_name)
      [] section = "Market Opportunity" -> text
      [] OTHER -> _anonymize(text, company_name)

\* one item of _generate_slide_1 (lines 88-91, 129-133) or _generate_slide_3
\* (lines 346-350, 363-367, 383-386, 398-399) from a non-empty source text
ComposeItem(section, text, company_name, available, generated) ==
    LET source == ItemSource(section, text, company_name)
    IN CASE section = "Company Overview" ->
              IF PyLen(source) > 200
              THEN _shorten_text(source, 200, "overview", available, generated)
              ELSE Item(source, << >>)
         [] section = "Key Highlights" ->
              IF PyLen(source) > 70
              THEN _shorten_text(source, 70, "highlight", available, generated)
              ELSE Item(source, << >>)
         [] section = "Recent Milestones" ->
              IF PyLen(source) > 70
              THEN _shorten_text(source, 70, "milestone", available, generated)
              ELSE Item(source, << >>)
         [] OTHER -> Item(Cut(source, 120), << >>)

ItemSections ==
    {"Company Overview", "Key Highlights", "Key Strengths", "Growth Opportunities",
     "Recent Milestones", "Market Opportunity"}

\* source texts below and above the caps: one with an ellipsis inside, one with
\* the company's name, a place, a double space and a tab, one whose 120th
\* character is inside a word, and one without any space
ItemTexts ==
    {"Forged steel valves for refineries",
     "Valves, pumps, flanges, fittings, couplings, gaskets, seals, etc... for refineries",
     "Acme Forge exports  valves to nine\tcountries from its Pune plant and two port depots",
     "Strong dealer network across eleven states with long-standing refinery customers and dependable aftermarket service revenues every year",
     "The firm designs, forges and machines high-pressure steel valves and flanges for refineries, fertiliser plants and offshore rigs, and services them through a dealer network across eleven states with depots at two ports",
     "Valves-pumps-flanges-fittings-couplings-gaskets-seals-and-a-great-many-other-forged-parts"}

ItemReplies ==
    {GenerateNone,
     GenerateText("\"Forged valves for refineries...\""),
     GenerateText("Forged valves, pumps and flanges for refineries, fertiliser plants and rigs.")}

ItemCalls ==
    [section : ItemSections, text : ItemTexts, company_name : {"Acme Forge"},
     available : BOOLEAN, generated : ItemReplies]

\* a writer is constructed and one item is about to be composed
InitItem ==
    /\ PipelineIdle
    /\ usage_log = << >>
    /\ NoCallBut("item")
    /\ \E call \in ItemCalls : item_args = <<call>>
    /\ item_result = << >>

\* the item is composed; what _shorten_text tracked is in the usage log
ComposeOneItem ==
    /\ item_args # << >>
    /\ item_result = << >>
    /\ LET item == ComposeItem(item_args[1].section, item_args[1].text,
                               item_args[1].company_name, item_args[1].available,
                               item_args[1].generated)
       IN /\ item_result' = <<item.text>>
          /\ usage_log' = usage_log \o item.tracked
    /\ UNCHANGED <<companies, skip_scraping, k, pc, results, md_content, data, extracted,
                   is_valid, issues, web_data, slide_content, slide_i, all_citations,
                   verified_slides, citations, md_lines, extracted_data, verifier_web,
                   decks, reports, token_files, classifier_vars, writer_vars, verify_vars,
                   slide2_vars, item_args, row_vars,
                   scraper_vars>>

NextItem == ComposeOneItem

SpecItem == InitItem /\ [][NextItem]_vars

(***************************************************************************)
(* Properties of the shortened items                                       *)
(***************************************************************************)

ItemComposed == item_args # << >> /\ item_result # << >>

\* the text the item was made from, and whether it had to be shortened
ComposedFrom ==
    ItemSource(item_args[1].section, item_args[1].text, item_args[1].company_name)
ItemShortened == PyLen(ComposedFrom) > ItemCap(item_args[1].section)

\* the words of the item are the first words of its source
WholeWordsOfSource ==
    LET item_words == Split(item_result[1])
        source_words == Split(ComposedFrom)
    IN /\ Len(item_words) <= Len(source_words)
       /\ \A i \in 1..Len(item_words) : item_words[i] = source_words[i]

\* C27: with text generation unavailable, every item the composer shortens
\* (company overview, key highlights, SWOT strengths and opportunities,
\* milestones, market opportunity) consists of whole words of the original
\* text cut at a word boundary, never in mid-word, stays within its character
\* cap, and never ends with an ellipsis.
C27_ShortenedItemsAreWholeWords ==
    (ItemComposed /\ ~item_args[1].available /\ ItemShortened) =>
        /\ WholeWordsOfSource
        /\ PyLen(item_result[1]) <= ItemCap(item_args[1].section)
        /\ ~EndsWith(item_result[1], "...")

\* the items that go through _shorten_text are whole words within the cap
C27_ShortenTextKeepsWholeWords ==
    (/\ ItemComposed
     /\ ~item_args[1].available
     /\ ItemShortened
     /\ item_args[1].section \in {"Company Overview", "Key Highlights", "Recent Milestones"}) =>
        /\ WholeWordsOfSource
        /\ PyLen(item_result[1]) <= ItemCap(item_args[1].section)

(***************************************************************************)
(* data_extractor.py: _parse_financial_row                                 *)
(***************************************************************************)

\* int(text) of a stripped text of digits and letters: ValueError unless it
\* is a non-empty run of digits
IntParses(s) == s # "" /\ \A i \in 1..Len(s) : IsDigit(Char(s, i))

\* float(text) of a stripped text of digits, dots and letters, no exponent,
\* "inf" or "nan" among the letters
RowFloatParses(s) ==
    /\ \A i \in 1..Len(s) : IsDigit(Char(s, i)) \/ Char(s, i) = "."
    /\ FloatParses(s)

\* lines 278-292: one entry of the row put into data; the value is held as a
\* fraction, and value / 100 as the fraction with a hundredfold denominator
ParseEntry(parsed, raw_entry, convert_to_cr) ==
    LET entry == Strip(raw_entry)
        before == Head(SplitOn(entry, ":"))
        year_str == Strip(before)
        value_str == Strip(SubSeq(entry, Len(before) + 2, Len(entry)))
        value == Fraction(FloatNum(value_str), FloatDen(value_str))
    IN IF ~Contains(entry, ":") THEN parsed
       ELSE IF ~IntParses(year_str) THEN parsed
       ELSE IF Lower(value_str) = "none" \/ value_str = "" THEN parsed
       ELSE IF ~RowFloatParses(value_str) THEN parsed
       ELSE IF convert_to_cr /\ Exceeds(value, Fraction(100, 1))
       THEN (DigitsToNat(year_str) :> Fraction(value.num, value.den * 100)) @@ parsed
       ELSE (DigitsToNat(year_str) :> value) @@ parsed

RECURSIVE ParseEntries(_, _, _)
ParseEntries(parsed, entries, convert_to_cr) ==
    IF Len(entries) = 0 THEN parsed
    ELSE ParseEntries(ParseEntry(parsed, Head(entries), convert_to_cr), Tail(entries),
                      convert_to_cr)

_parse_financial_row(row_data, convert_to_cr) ==
    ParseEntries(<< >>, SplitOn(row_data, "|"), convert_to_cr)

\* entries below, at and above 100, and entries that are skipped
RowFirstEntries ==
    {"2022: 90", "2022: 100", "2022: 100.5", "2022: 4251.8", "2022: None", "2022: n/a",
     "2022", "FY22: 150", "2023: 40"}

RowSecondEntries == {"2023: 150", " 2023 : 80.25 ", "2023: 99.99", "2023:", "2023: 1.2.3"}

RowTexts ==
    {"", "2024: 120"} \cup {a \o " | " \o b : a \in RowFirstEntries, b \in RowSecondEntries}

RowCalls == [row_data : RowTexts, convert_to_cr : BOOLEAN]

\* an extractor is about to parse the text after a metric's name
InitRow ==
    /\ PipelineIdle
    /\ usage_log = << >>
    /\ NoCallBut("row")
    /\ \E call \in RowCalls : row_args = <<call>>
    /\ row_result = << >>

ParseFinancialRow ==
    /\ row_args # << >>
    /\ row_result = << >>
    /\ row_result' = <<_parse_financial_row(row_args[1].row_data, row_args[1].convert_to_cr)>>
    /\ UNCHANGED <<pipeline_vars, classifier_vars, writer_vars, verify_vars, slide2_vars,
                   item_vars, row_args, scraper_vars>>

NextRow == ParseFinancialRow

SpecRow == InitRow /\ [][NextRow]_vars

(***************************************************************************)
(* Properties of the parsed row                                            *)
(***************************************************************************)

RowParsed == row_args # << >> /\ row_result # << >>

\* the row as it is parsed without conversion: the raw values
RawSeries == _parse_financial_row(row_args[1].row_data, FALSE)

SameValue(a, b) == a.num * b.den = b.num * a.den
Hundredth(a) == Fraction(a.num, a.den * 100)

\* C28: _parse_financial_row with conversion on puts every entry of one
\* monetary row on the same unit scale: either all values of the series are
\* divided by 100 or none is, so for any two entries of a row the order of
\* their raw values is preserved in the parsed series.
C28_OneScalePerRow ==
    (RowParsed /\ row_args[1].convert_to_cr) =>
        LET series == row_result[1]
        IN /\ DOMAIN series = DOMAIN RawSeries
           /\ \/ \A yr \in DOMAIN series : SameValue(series[yr], RawSeries[yr])
              \/ \A yr \in DOMAIN series : SameValue(series[yr], Hundredth(RawSeries[yr]))
           /\ \A y1, y2 \in DOMAIN series :
                 Exceeds(RawSeries[y1], RawSeries[y2]) => Exceeds(series[y1], series[y2])

\* each value is scaled on its own: divided by 100 exactly when it is above 100
C28_EachValueScaledOnItsOwn ==
    (RowParsed /\ row_args[1].convert_to_cr) =>
        LET series == row_result[1]
        IN /\ DOMAIN series = DOMAIN RawSeries
           /\ \A yr \in DOMAIN series :
                 SameValue(series[yr],
                           IF Exceeds(RawSeries[yr], Fraction(100, 1))
                           THEN Hundredth(RawSeries[yr]) ELSE RawSeries[yr])

\* a row with one value below 100 and one above is parsed with conversion
C28_MixedRowParsed ==
    /\ RowParsed
    /\ row_args[1].convert_to_cr
    /\ row_args[1].row_data = "2022: 90 | 2023: 150"
    /\ SameValue(row_result[1][2022], Fraction(90, 1))
    /\ SameValue(row_result[1][2023], Fraction(3, 2))

(***************************************************************************)
(* web_scraper.py: successive scrape_all_sources calls on one WebScraper   *)
(***************************************************************************)

\* the calls made on one scraper
MaxScrapes == 2

\* website.rstrip('/'), with 'https://' before a base that does not start
\* with 'http' (lines 289-291)
BaseUrl(website) ==
    LET base_url == RStripChar(website, "/")
    IN IF StartsAt(base_url, 1, "http") THEN base_url ELSE "https://" \o base_url

\* urljoin(base_url, path) for a base_url without a path and a path that
\* starts with '/'
UrlJoin(base_url, path) == base_url \o path

\* a ScrapedPage; its content and scraped_at are left out
ScrapedPage(url, page_type) == [url |-> url, page_type |-> page_type, success |-> TRUE]

\* one category with the candidates to try
Candidates(page_type, paths) == [page_type |-> page_type, paths |-> paths]

\* what _discover_pages_requests returns for a homepage that answers 200 and
\* links to its /about and /news pages
DiscoveredPages(base_url) ==
    <<Candidates("about", <<base_url \o "/about">>), Candidates("products", << >>),
      Candidates("investors", << >>), Candidates("contact", << >>),
      Candidates("news", <<base_url \o "/news">>)>>

\* lines 313-318: the paths guessed when discovery returns None
DefaultPages ==
    <<Candidates("about", <<"/about-us", "/about", "/company">>),
      Candidates("products", <<"/products", "/services", "/solutions">>),
      Candidates("investors", <<"/investors", "/investor-relations">>),
      Candidates("contact", <<"/contact", "/contact-us">>)>>

\* what the web answers during one call: whether the homepage answers 200 to
\* the GET of _discover_pages_requests and to the GET of
\* _scrape_with_requests, and the paths of the site that answer 200 with more
\* than 200 characters of text
Answers(discovery, homepage, live) ==
    [discovery |-> discovery, homepage |-> homepage, live |-> live]

\* scraper.scraped_pages and the data dict of _scrape_with_requests
Scraping(pages, found) == [pages |-> pages, found |-> found]

AlreadyScraped(pages, url) == \E i \in 1..Len(pages) : pages[i].url = url

\* lines 569-598: the candidates of one category, until one is scraped
RECURSIVE TryPaths(_, _, _, _, _)
TryPaths(st, base_url, page_type, paths, answers) ==
    IF Len(paths) = 0 THEN st
    ELSE LET path == Head(paths)
             url == IF StartsAt(path, 1, "http") THEN path ELSE UrlJoin(base_url, path)
         IN IF AlreadyScraped(st.pages, url)
            THEN TryPaths(st, base_url, page_type, Tail(paths), answers)
            ELSE IF \E p \in answers.live : url = base_url \o p
            THEN Scraping(Append(st.pages, ScrapedPage(url, page_type)),
                          Append(st.found, [page_type |-> page_type, url |-> url]))
            ELSE TryPaths(st, base_url, page_type, Tail(paths), answers)

RECURSIVE TryCategories(_, _, _, _)
TryCategories(st, base_url, pages, answers) ==
    IF Len(pages) = 0 THEN st
    ELSE TryCategories(TryPaths(st, base_url, Head(pages).page_type, Head(pages).paths,
                                answers),
                       base_url, Tail(pages), answers)

\* lines 534-601, on a scraper whose scraped_pages are as given
_scrape_with_requests(scraped, base_url, pages, answers) ==
    LET homepage ==
            IF /\ ~\E i \in 1..Len(scraped) : scraped[i].page_type = "homepage"
               /\ answers.homepage
            THEN Scraping(Append(scraped, ScrapedPage(base_url, "homepage")),
                          <<[page_type |-> "homepage", url |-> base_url]>>)
            ELSE Scraping(scraped, << >>)
    IN TryCategories(homepage, base_url, pages, answers)

\* lines 282-319 of a scraper constructed with use_playwright=False
_scrape_company_website_smart(scraped, website, answers) ==
    IF website = "" THEN Scraping(scraped, << >>)
    ELSE IF answers.discovery
    THEN _scrape_with_requests(scraped, BaseUrl(website), DiscoveredPages(BaseUrl(website)),
                               answers)
    ELSE _scrape_with_requests(scraped, BaseUrl(website), DefaultPages, answers)

\* lines 622-632, for the domain of the calls and for a domain without an entry
_get_market_data_with_urls(domain) ==
    IF Lower(domain) = "manufacturing" THEN WebManufacturing.market_data
    ELSE [NoMarketData EXCEPT !.nonempty = TRUE]

SourceUsed(url, name, type) == [url |-> url, name |-> name, type |-> type]

\* lines 230-280: the result and the scraper's pages after the call; news and
\* industry_outlook, functions of the domain alone, are left out
scrape_all_sources(scraped, website, domain, answers) ==
    LET st == IF website # "" THEN _scrape_company_website_smart(scraped, website, answers)
              ELSE Scraping(scraped, << >>)
        market_data == _get_market_data_with_urls(domain)
    IN [pages |-> st.pages,
        result |->
          [company_info |-> st.found,
           market_data |-> market_data,
           scraped_pages |-> IF website # "" THEN st.pages ELSE << >>,
           sources_used |->
              [i \in 1..Len(market_data.sources) |->
                 SourceUsed(market_data.sources[i].source_url,
                            market_data.sources[i].source_name, "market_data")]
              \o [i \in 1..Len(st.pages) |->
                    SourceUsed(st.pages[i].url,
                               "Company Website - " \o st.pages[i].page_type, "company")]]]

\* websites as the data packs give them, and none
ScrapeWebsites == {"", "https://acme.in", "bolt.in/"}

ScrapeAnswers ==
    {Answers(discovery, homepage, live) :
       discovery \in BOOLEAN, homepage \in BOOLEAN, live \in SUBSET {"/about", "/news"}}

\* KelpPipeline.__init__ has constructed its WebScraper
InitScraper ==
    /\ PipelineIdle
    /\ usage_log = << >>
    /\ NoCallBut("scraper")
    /\ scraped_pages = << >>
    /\ scrape_calls = << >>
    /\ scrape_results = << >>

\* process() of the next company of the batch calls scrape_all_sources
ScrapeAllSources ==
    /\ Len(scrape_calls) < MaxScrapes
    /\ \E website \in ScrapeWebsites, answers \in ScrapeAnswers :
          LET r == scrape_all_sources(scraped_pages, website, "manufacturing", answers)
          IN /\ scraped_pages' = r.pages
             /\ scrape_calls' = Append(scrape_calls, [website |-> website,
                                                      answers |-> answers])
             /\ scrape_results' = Append(scrape_results, r.result)
    /\ UNCHANGED <<pipeline_vars, classifier_vars, writer_vars, verify_vars, slide2_vars,
                   item_vars, row_vars>>

NextScraper == ScrapeAllSources

SpecScraper == InitScraper /\ [][NextScraper]_vars

(***************************************************************************)
(* Properties of the results of successive calls                           *)
(***************************************************************************)

\* the url is the homepage or a page of the website
OnWebsite(url, website) ==
    website # "" /\ (url = BaseUrl(website) \/ StartsAt(url, 1, BaseUrl(website) \o "/"))

\* the company pages a result lists among its sources
CompanySources(result) == SelectSeq(result.sources_used, LAMBDA s : s.type = "company")

\* the result lists only pages of the call's website
ListsOwnPagesOnly(j) ==
    /\ \A i \in 1..Len(scrape_results[j].scraped_pages) :
          OnWebsite(scrape_results[j].scraped_pages[i].url, scrape_calls[j].website)
    /\ \A i \in 1..Len(CompanySources(scrape_results[j])) :
          OnWebsite(CompanySources(scrape_results[j])[i].url, scrape_calls[j].website)

\* the homepage of the call's website is scraped when it answers
HomepageScraped(j) ==
    (scrape_calls[j].website # "" /\ scrape_calls[j].answers.homepage) =>
        \E i \in 1..Len(scrape_results[j].scraped_pages) :
            scrape_results[j].scraped_pages[i] =
                ScrapedPage(BaseUrl(scrape_calls[j].website), "homepage")

\* C30: across successive scrape_all_sources calls on one WebScraper (batch
\* mode), the result for company k lists in scraped_pages and sources_used
\* only pages scraped from company k's website, and company k's homepage is
\* fetched even when the homepage of an earlier company was already scraped.
C30_ResultListsOwnPagesAndHomepage ==
    \A j \in 1..Len(scrape_results) : ListsOwnPagesOnly(j) /\ HomepageScraped(j)

\* the first call on a scraper lists its own pages and scrapes its homepage
C30_FirstCallListsOwnPages ==
    Len(scrape_results) >= 1 => (ListsOwnPagesOnly(1) /\ HomepageScraped(1))

\* every result lists among its sources all the pages the scraper has scraped
\* up to that call, and the scraper never forgets a page
C30_ResultListsEveryPageSoFar ==
    /\ \A j \in 1..Len(scrape_results) :
          /\ Len(CompanySources(scrape_results[j])) >=
                (IF j = 1 THEN 0 ELSE Len(CompanySources(scrape_results[j - 1])))
          /\ j = Len(scrape_results) =>
                Len(CompanySources(scrape_results[j])) = Len(scraped_pages)
    /\ Cardinality({i \in 1..Len(scraped_pages) : scraped_pages[i].page_type = "homepage"})
          <= 1

\* the second company's result lists the first company's homepage and not its own
C30_SecondResultListsFirstHomepage ==
    /\ Len(scrape_results) = 2
    /\ scrape_calls[1].website = "https://acme.in"
    /\ scrape_calls[2].website = "bolt.in/"
    /\ scrape_calls[2].answers.homepage
    /\ scrape_results[2].scraped_pages = <<ScrapedPage("https://acme.in", "homepage")>>

====
